---- MODULE Spec2Model ----
(***************************************************************************)
(* Model of the incremental compression chunker of c-ext/                  *)
(* compressionchunker.c: ZstdCompressionChunker (compress / flush /        *)
(* finish) and ZstdCompressionChunkerIterator (iternext), driven against   *)
(* a small framed block codec standing for ZSTD_compressStream2.           *)
(***************************************************************************)
EXTENDS Integers, Sequences, FiniteSets, TLC

(* ------------------------------ bounds -------------------------------- *)
\* chunk capacity given to the chunker (output.size == chunkSize)
ChunkSize == 2
\* codec block size: input is staged until a block is complete
BlockSize == 2
\* longest data passed to one compress() call
MaxData == 2
\* total number of input bytes accepted over the life of the chunker
MaxFed == 3
\* codec errors injected in one behaviour
MaxErrors == 1

\* the byte stream the caller compresses, cut into compress() calls
Source == [i \in 1..MaxFed |-> i]
\* frame header and frame epilogue bytes written by the codec
FrameHeader == 7
FrameEpilogue == 8

(* ------------------------------ helpers ------------------------------- *)
Min(a, b) == IF a < b THEN a ELSE b

Take(s, n) == SubSeq(s, 1, n)

Drop(s, n) == SubSeq(s, n + 1, Len(s))

\* number of occurrences of byte b in s
RECURSIVE Count(_, _)
Count(s, b) ==
    IF s = <<>> THEN 0
    ELSE (IF Head(s) = b THEN 1 ELSE 0) + Count(Tail(s), b)

(* ------------------------------- names -------------------------------- *)
compressionchunker_mode_normal == "normal"
compressionchunker_mode_flush == "flush"
compressionchunker_mode_finish == "finish"

Modes == {compressionchunker_mode_normal, compressionchunker_mode_flush,
          compressionchunker_mode_finish}

ZSTD_e_continue == "continue"
ZSTD_e_flush == "flush"
ZSTD_e_end == "end"

\* the methods of the chunker
Ops == {"compress", "flush", "finish"}

\* the messages the chunker raises through zstd_error(st)
ErrAfterFinished(op) ==
    CASE op = "compress" -> "cannot call compress() after compression finished"
      [] op = "flush" -> "cannot call flush() after compression finished"
      [] op = "finish" -> "cannot call finish() after compression finished"

ErrBeforeConsuming(op) ==
    CASE op = "compress" -> "cannot perform operation before consuming output from previous operation"
      [] op = "flush" -> "cannot call flush() before consuming output from previous operation"
      [] op = "finish" -> "cannot call finish() before consuming output from previous operation"

ErrNotFullyConsumed == "input should have been fully consumed before calling flush() or finish()"
ErrZstdCompress == "zstd compress error"
ErrNoMemory == "MemoryError"
NoErr == "none"

\* error kinds of the specification, by message
ErrorKind(msg) ==
    CASE \E op \in Ops : msg = ErrAfterFinished(op) -> "InvalidState"
      [] \E op \in Ops : msg = ErrBeforeConsuming(op) -> "InvalidState"
      [] msg = ErrNotFullyConsumed -> "ProtocolViolation"
      [] msg = ErrZstdCompress -> "CodecError"
      [] OTHER -> msg

(* ------------------------------- codec -------------------------------- *)
(* ZSTD_compressStream2 as the chunker sees it: a streaming step over an   *)
(* input cursor and an output cursor.  The session stages input until a    *)
(* block is complete (or a flush/end directive closes it), encodes a block *)
(* as its length followed by its bytes, opens a frame with FrameHeader,    *)
(* closes it with FrameEpilogue, and hands bytes that did not fit the      *)
(* output to the next call.  The value returned is the number of bytes     *)
(* still to be flushed.                                                    *)

\* a fresh compression context
NewCCtx == [stage |-> "init", staged |-> <<>>, pending |-> <<>>]

\* write bytes s into the output cursor at its position
OutWrite(out, s) ==
    [out EXCEPT !.dst = [i \in 1..out.size |->
                            IF i > out.pos /\ i <= out.pos + Len(s)
                            THEN s[i - out.pos] ELSE out.dst[i]],
                !.pos = out.pos + Len(s)]

\* what a codec call returns: the session, the two cursors and the hint
CodecResult(cctx, output, input, zresult) ==
    [cctx |-> cctx, output |-> output, input |-> input, zresult |-> zresult]

\* last step of a call: the n first bytes produced go to the output, the
\* others wait in the session
CodecEmit(staged, output, input, directive, doEnd, doBlock, stage, produced, n) ==
    CodecResult(
        [stage |-> IF doEnd
                   THEN (IF n = Len(produced) THEN "init" ELSE "ending")
                   ELSE IF doBlock THEN "open" ELSE stage,
         staged |-> IF doBlock THEN <<>> ELSE staged,
         pending |-> Drop(produced, n)],
        OutWrite(output, Take(produced, n)),
        input,
        Len(produced) - n +
            (IF directive # ZSTD_e_continue /\ input.pos # input.size
             THEN 1 ELSE 0))

\* the staged bytes become a block when the block is complete or a flush or
\* end directive closes it; the end directive closes the frame
CodecEncode(staged, output, input, directive, stage, doBlock, doEnd) ==
    CodecEmit(staged, output, input, directive, doEnd, doBlock, stage,
              (IF stage = "init" /\ (doBlock \/ doEnd)
               THEN <<FrameHeader>> ELSE <<>>)
              \o (IF doBlock THEN <<Len(staged)>> \o staged ELSE <<>>)
              \o (IF doEnd THEN <<FrameEpilogue>> ELSE <<>>),
              Min((IF stage = "init" /\ (doBlock \/ doEnd) THEN 1 ELSE 0)
                  + (IF doBlock THEN 1 + Len(staged) ELSE 0)
                  + (IF doEnd THEN 1 ELSE 0),
                  output.size - output.pos))

\* k input bytes are read into the staging area
CodecLoad(cctx, output, input, directive, k) ==
    CodecEncode(
        cctx.staged \o SubSeq(input.src, input.pos + 1, input.pos + k),
        output,
        [input EXCEPT !.pos = input.pos + k],
        directive,
        cctx.stage,
        \/ Len(cctx.staged) + k = BlockSize
        \/ /\ directive # ZSTD_e_continue
           /\ input.pos + k = input.size
           /\ Len(cctx.staged) + k > 0,
        directive = ZSTD_e_end /\ input.pos + k = input.size)

\* first step of a call: n bytes waiting in the session go to the output
CodecFlush(cctx, output, input, directive, n) ==
    IF n < Len(cctx.pending) THEN
        \* output is full and bytes are still waiting
        CodecResult([cctx EXCEPT !.pending = Drop(cctx.pending, n)],
                    OutWrite(output, Take(cctx.pending, n)), input,
                    Len(cctx.pending) - n)
    ELSE IF cctx.stage = "ending" THEN
        \* the ended frame is now wholly flushed; the session resets
        CodecResult(NewCCtx, OutWrite(output, cctx.pending), input, 0)
    ELSE
        CodecLoad([cctx EXCEPT !.pending = <<>>],
                  OutWrite(output, cctx.pending), input, directive,
                  Min(input.size - input.pos, BlockSize - Len(cctx.staged)))

ZSTD_compressStream2(cctx, output, input, directive) ==
    CodecFlush(cctx, output, input, directive,
               Min(Len(cctx.pending), output.size - output.pos))

\* ZSTD_isError(zresult) of a call that failed
CodecFailed(cctx, output, input) ==
    [cctx |-> cctx, output |-> output, input |-> input, zresult |-> 0,
     isError |-> TRUE]

\* a call that returned r
CodecDone(r, failed) ==
    IF failed THEN CodecFailed(r.cctx, r.output, r.input)
    ELSE [cctx |-> r.cctx, output |-> r.output, input |-> r.input,
          zresult |-> r.zresult, isError |-> FALSE]

(* A codec call with its failure outcome: "early" reports an error before *)
(* the cursors move, "late" after; any other value is the call above.      *)
CodecCall(cctx, output, input, directive, fault) ==
    IF fault = "early" THEN CodecFailed(cctx, output, input)
    ELSE CodecDone(ZSTD_compressStream2(cctx, output, input, directive),
                   fault = "late")

(* ------------------------------ chunker ------------------------------- *)
\* ZSTD_inBuffer with src == NULL
NullInput == [src |-> <<>>, size |-> 0, pos |-> 0]

\* a ZstdCompressionChunker as ZstdCompressor.chunker() hands it out:
\* no input bound, an empty output buffer of chunkSize bytes, not finished
NewChunker ==
    [input |-> NullInput,
     output |-> [dst |-> [i \in 1..ChunkSize |-> 0], size |-> ChunkSize,
                 pos |-> 0],
     inBuffer |-> [obj |-> FALSE],
     finished |-> FALSE,
     chunkSize |-> ChunkSize]

\* a release that clears the cursor and keeps the buffer
Mut_ReleaseInput_KeepsBuffer(chunker) ==
    [chunker EXCEPT !.input = NullInput]

\* lines 51-54 and 81-84: the input cursor cleared and
\* PyBuffer_Release(&chunker->inBuffer)
ReleaseInput(chunker) ==
    [chunker EXCEPT !.input = NullInput, !.inBuffer = [obj |-> FALSE]]

\* lines 50 and 80: release the input if the input cursor is at its end
ReleaseIfConsumed(chunker) ==
    IF chunker.input.pos = chunker.input.size THEN ReleaseInput(chunker)
    ELSE chunker

\* the result of one iternext call: ret is "chunk", "stop" (NULL without an
\* exception) or "error"; dirs are the directives given to the codec and
\* read the bytes the codec consumed
NextResult(chunker, cctx, ret, err, chunk, zresult, dirs, read) ==
    [chunker |-> chunker, cctx |-> cctx, ret |-> ret, err |-> err,
     chunk |-> chunk, zresult |-> zresult, dirs |-> dirs, read |-> read]

\* PyBytes_FromStringAndSize(output.dst, output.pos) returns a chunk
ChunkOk(fault) == fault # "nomem"

\* a chunk copied out of the output buffer without the reset of output.pos
Mut_EmitChunk_KeepsPosition(chunker, cctx, fault, zresult, dirs, read, finished) ==
    IF ~ChunkOk(fault) THEN
        NextResult(chunker, cctx, "error", ErrNoMemory, <<>>, zresult, dirs,
                   read)
    ELSE
        NextResult([chunker EXCEPT !.finished = (@ \/ finished)],
                   cctx, "chunk", NoErr,
                   Take(chunker.output.dst, chunker.output.pos), zresult,
                   dirs, read)

\* lines 65-73 and 123-128: the output buffer copied out as a chunk and
\* output.pos reset; finished tells whether the flag is to be set
EmitChunk(chunker, cctx, fault, zresult, dirs, read, finished) ==
    IF ~ChunkOk(fault) THEN
        NextResult(chunker, cctx, "error", ErrNoMemory, <<>>, zresult, dirs,
                   read)
    ELSE
        NextResult([chunker EXCEPT !.output.pos = 0,
                                   !.finished = (@ \/ finished)],
                   cctx, "chunk", NoErr,
                   Take(chunker.output.dst, chunker.output.pos), zresult,
                   dirs, read)

(* The loop "while (chunker->input.pos < chunker->input.size)" of          *)
(* iternext.  ret = "fallthrough" means the loop ended without returning.  *)
RECURSIVE ConsumeInput(_, _, _, _, _)

\* the loop that emits whatever the output buffer holds
Mut_AfterContinue_EmitsPartial(c, r, fault, dirs, read) ==
    IF r.isError THEN
        NextResult(c, r.cctx, "error", ErrZstdCompress, <<>>, 0, dirs, read)
    ELSE IF c.output.pos > 0 THEN
        EmitChunk(c, r.cctx, fault, r.zresult, dirs, read, FALSE)
    ELSE
        ConsumeInput(c, r.cctx, fault, dirs, read)

\* the loop that empties the output buffer when the codec reports an error
Mut_AfterContinue_ErrorResetsOutput(c, r, fault, dirs, read) ==
    IF r.isError THEN
        NextResult([c EXCEPT !.output.pos = 0], r.cctx, "error",
                   ErrZstdCompress, <<>>, 0, dirs, read)
    ELSE IF c.output.pos = c.output.size THEN
        EmitChunk(c, r.cctx, fault, r.zresult, dirs, read, FALSE)
    ELSE
        ConsumeInput(c, r.cctx, fault, dirs, read)

\* lines 49-77: after a call with ZSTD_e_continue that returned r and took
\* the chunker to c
AfterContinue(c, r, fault, dirs, read) ==
    IF r.isError THEN
        NextResult(c, r.cctx, "error", ErrZstdCompress, <<>>, 0, dirs, read)
    ELSE IF c.output.pos = c.output.size THEN
        EmitChunk(c, r.cctx, fault, r.zresult, dirs, read, FALSE)
    ELSE
        ConsumeInput(c, r.cctx, fault, dirs, read)

\* lines 44-55: the call, the cursors it moved, the bytes it read
Continue(chunker, r, fault, dirs, read) ==
    AfterContinue(
        ReleaseIfConsumed([chunker EXCEPT !.output = r.output,
                                          !.input = r.input]),
        r, fault, Append(dirs, ZSTD_e_continue),
        read \o SubSeq(chunker.input.src, chunker.input.pos + 1,
                       r.input.pos))

ConsumeInput(chunker, cctx, fault, dirs, read) ==
    IF chunker.input.pos < chunker.input.size THEN
        Continue(chunker,
                 CodecCall(cctx, chunker.output, chunker.input,
                           ZSTD_e_continue, fault),
                 fault, dirs, read)
    ELSE
        NextResult(chunker, cctx, "fallthrough", NoErr, <<>>, 0, dirs, read)

\* the terminating call that sets finished whatever the codec reports
Mut_AfterFlushOrEnd_FinishedEarly(c, r, mode, fault, dirs, read) ==
    IF r.isError THEN
        NextResult(c, r.cctx, "error", ErrZstdCompress, <<>>, 0, dirs, read)
    ELSE IF r.zresult = 0 /\ c.output.pos = 0 THEN
        NextResult(c, r.cctx, "stop", NoErr, <<>>, r.zresult, dirs, read)
    ELSE
        EmitChunk(c, r.cctx, fault, r.zresult, dirs, read,
                  mode = compressionchunker_mode_finish)

\* the terminating call that stops whenever the codec reports no work left
Mut_AfterFlushOrEnd_StopOnHint(c, r, mode, fault, dirs, read) ==
    IF r.isError THEN
        NextResult(c, r.cctx, "error", ErrZstdCompress, <<>>, 0, dirs, read)
    ELSE IF r.zresult = 0 THEN
        NextResult(c, r.cctx, "stop", NoErr, <<>>, r.zresult, dirs, read)
    ELSE
        EmitChunk(c, r.cctx, fault, r.zresult, dirs, read,
                  r.zresult = 0 /\ mode = compressionchunker_mode_finish)

\* the terminating call that emits a chunk whatever the output buffer holds
Mut_AfterFlushOrEnd_AlwaysEmits(c, r, mode, fault, dirs, read) ==
    IF r.isError THEN
        NextResult(c, r.cctx, "error", ErrZstdCompress, <<>>, 0, dirs, read)
    ELSE
        EmitChunk(c, r.cctx, fault, r.zresult, dirs, read,
                  r.zresult = 0 /\ mode = compressionchunker_mode_finish)

\* lines 113-134: after the terminating call that returned r and took the
\* chunker to c
AfterFlushOrEnd(c, r, mode, fault, dirs, read) ==
    IF r.isError THEN
        NextResult(c, r.cctx, "error", ErrZstdCompress, <<>>, 0, dirs, read)
    ELSE IF r.zresult = 0 /\ c.output.pos = 0 THEN
        NextResult(c, r.cctx, "stop", NoErr, <<>>, r.zresult, dirs, read)
    ELSE
        EmitChunk(c, r.cctx, fault, r.zresult, dirs, read,
                  r.zresult = 0 /\ mode = compressionchunker_mode_finish)

\* lines 108-111: the terminating call with directive zFlushMode
Terminate(chunker, r, mode, zFlushMode, fault, dirs, read) ==
    AfterFlushOrEnd([chunker EXCEPT !.output = r.output, !.input = r.input],
                    r, mode, fault, Append(dirs, zFlushMode), read)

\* lines 96-134 of iternext: the terminating call of a flush or finish pull
FlushOrEnd(chunker, cctx, mode, zFlushMode, fault, dirs, read) ==
    Terminate(chunker,
              CodecCall(cctx, chunker.output, chunker.input, zFlushMode,
                        fault),
              mode, zFlushMode, fault, dirs, read)

\* the terminating call that ends the frame whatever the mode of the cursor
Mut_AfterConsume_AlwaysEnd(c, w, mode, fault) ==
    IF mode = compressionchunker_mode_normal THEN
        NextResult(c, w.cctx, "stop", NoErr, <<>>, 0, w.dirs, w.read)
    ELSE
        FlushOrEnd(c, w.cctx, mode, ZSTD_e_end, fault, w.dirs, w.read)

\* lines 79-111: after the loop, which ended in w without returning
AfterConsume(c, w, mode, fault) ==
    IF mode = compressionchunker_mode_normal THEN
        NextResult(c, w.cctx, "stop", NoErr, <<>>, 0, w.dirs, w.read)
    ELSE
        FlushOrEnd(c, w.cctx, mode,
                   IF mode = compressionchunker_mode_flush
                   THEN ZSTD_e_flush ELSE ZSTD_e_end,
                   fault, w.dirs, w.read)

\* iternext without the release of lines 80-85
Mut_Consumed_NoRelease(w, mode, fault) ==
    IF w.ret # "fallthrough" THEN w
    ELSE AfterConsume(w.chunker, w, mode, fault)

\* lines 43-94: the loop and what follows it
Consumed(w, mode, fault) ==
    IF w.ret # "fallthrough" THEN w
    ELSE AfterConsume(ReleaseIfConsumed(w.chunker), w, mode, fault)

\* iternext without the test of lines 31-36
Mut_iternext_NoProtocolCheck(chunker, cctx, mode, fault) ==
    IF chunker.finished THEN
        NextResult(chunker, cctx, "stop", NoErr, <<>>, 0, <<>>, <<>>)
    ELSE
        Consumed(ConsumeInput(chunker, cctx, fault, <<>>, <<>>), mode, fault)

\* iternext that refuses a flush or finish pull while the input buffer is
\* held, instead of while the input cursor is not at its end
Mut_iternext_HeldInput(chunker, cctx, mode, fault) ==
    IF mode # compressionchunker_mode_normal /\ chunker.inBuffer.obj THEN
        NextResult(chunker, cctx, "error", ErrNotFullyConsumed, <<>>, 0,
                   <<>>, <<>>)
    ELSE IF chunker.finished THEN
        NextResult(chunker, cctx, "stop", NoErr, <<>>, 0, <<>>, <<>>)
    ELSE
        Consumed(ConsumeInput(chunker, cctx, fault, <<>>, <<>>), mode, fault)

\* iternext without the test of lines 38-40
Mut_iternext_NoFinishedCheck(chunker, cctx, mode, fault) ==
    IF mode # compressionchunker_mode_normal /\
       chunker.input.pos # chunker.input.size THEN
        NextResult(chunker, cctx, "error", ErrNotFullyConsumed, <<>>, 0,
                   <<>>, <<>>)
    ELSE
        Consumed(ConsumeInput(chunker, cctx, fault, <<>>, <<>>), mode, fault)

\* ZstdCompressionChunkerIterator_iternext
ZstdCompressionChunkerIterator_iternext(chunker, cctx, mode, fault) ==
    IF mode # compressionchunker_mode_normal /\
       chunker.input.pos # chunker.input.size THEN
        NextResult(chunker, cctx, "error", ErrNotFullyConsumed, <<>>, 0,
                   <<>>, <<>>)
    ELSE IF chunker.finished THEN
        NextResult(chunker, cctx, "stop", NoErr, <<>>, 0, <<>>, <<>>)
    ELSE
        Consumed(ConsumeInput(chunker, cctx, fault, <<>>, <<>>), mode, fault)

\* the result of a compress / flush / finish call: ret is "iter" or "error"
CallResult(chunker, ret, err, mode) ==
    [chunker |-> chunker, ret |-> ret, err |-> err, mode |-> mode]

\* compress() that binds the new data although an input is still held
Mut_compress_Rebinds(chunker, data, iterOk) ==
    IF chunker.finished THEN
        CallResult(chunker, "error", ErrAfterFinished("compress"), "-")
    ELSE IF ~iterOk THEN
        CallResult([chunker EXCEPT !.inBuffer = [obj |-> FALSE]], "error",
                   ErrNoMemory, "-")
    ELSE
        CallResult([chunker EXCEPT !.inBuffer = [obj |-> TRUE],
                                   !.input = [src |-> data,
                                              size |-> Len(data),
                                              pos |-> 0]],
                   "iter", NoErr, compressionchunker_mode_normal)

\* compress() that looks at the input cursor instead of the held buffer
Mut_compress_CursorCheck(chunker, data, iterOk) ==
    IF chunker.finished THEN
        CallResult(chunker, "error", ErrAfterFinished("compress"), "-")
    ELSE IF chunker.input.pos < chunker.input.size THEN
        CallResult(chunker, "error", ErrBeforeConsuming("compress"), "-")
    ELSE IF ~iterOk THEN
        CallResult([chunker EXCEPT !.inBuffer = [obj |-> FALSE]], "error",
                   ErrNoMemory, "-")
    ELSE
        CallResult([chunker EXCEPT !.inBuffer = [obj |-> TRUE],
                                   !.input = [src |-> data,
                                              size |-> Len(data),
                                              pos |-> 0]],
                   "iter", NoErr, compressionchunker_mode_normal)

\* compress() that keeps the buffer it acquired when the iterator cannot be
\* created
Mut_compress_KeepsBuffer(chunker, data, iterOk) ==
    IF chunker.finished THEN
        CallResult(chunker, "error", ErrAfterFinished("compress"), "-")
    ELSE IF chunker.inBuffer.obj THEN
        CallResult(chunker, "error", ErrBeforeConsuming("compress"), "-")
    ELSE IF ~iterOk THEN
        CallResult([chunker EXCEPT !.inBuffer = [obj |-> TRUE]], "error",
                   ErrNoMemory, "-")
    ELSE
        CallResult([chunker EXCEPT !.inBuffer = [obj |-> TRUE],
                                   !.input = [src |-> data,
                                              size |-> Len(data),
                                              pos |-> 0]],
                   "iter", NoErr, compressionchunker_mode_normal)

\* ZstdCompressionChunker_compress of a bytes-like object; iterOk: the
\* iterator object could be created
ZstdCompressionChunker_compress(chunker, data, iterOk) ==
    IF chunker.finished THEN
        CallResult(chunker, "error", ErrAfterFinished("compress"), "-")
    ELSE IF chunker.inBuffer.obj THEN
        CallResult(chunker, "error", ErrBeforeConsuming("compress"), "-")
    ELSE IF ~iterOk THEN
        CallResult([chunker EXCEPT !.inBuffer = [obj |-> FALSE]], "error",
                   ErrNoMemory, "-")
    ELSE
        CallResult([chunker EXCEPT !.inBuffer = [obj |-> TRUE],
                                   !.input = [src |-> data,
                                              size |-> Len(data),
                                              pos |-> 0]],
                   "iter", NoErr, compressionchunker_mode_normal)

\* finish() that does not look at the held input buffer
Mut_finish_NoHeldCheck(chunker, iterOk) ==
    IF chunker.finished THEN
        CallResult(chunker, "error", ErrAfterFinished("finish"), "-")
    ELSE IF ~iterOk THEN
        CallResult(chunker, "error", ErrNoMemory, "-")
    ELSE
        CallResult(chunker, "iter", NoErr, compressionchunker_mode_finish)

\* ZstdCompressionChunker_finish
ZstdCompressionChunker_finish(chunker, iterOk) ==
    IF chunker.finished THEN
        CallResult(chunker, "error", ErrAfterFinished("finish"), "-")
    ELSE IF chunker.inBuffer.obj THEN
        CallResult(chunker, "error", ErrBeforeConsuming("finish"), "-")
    ELSE IF ~iterOk THEN
        CallResult(chunker, "error", ErrNoMemory, "-")
    ELSE
        CallResult(chunker, "iter", NoErr, compressionchunker_mode_finish)

\* flush() that does not look at the finished flag
Mut_flush_NoFinishedCheck(chunker, iterOk) ==
    IF chunker.inBuffer.obj THEN
        CallResult(chunker, "error", ErrBeforeConsuming("flush"), "-")
    ELSE IF ~iterOk THEN
        CallResult(chunker, "error", ErrNoMemory, "-")
    ELSE
        CallResult(chunker, "iter", NoErr, compressionchunker_mode_flush)

\* ZstdCompressionChunker_flush
ZstdCompressionChunker_flush(chunker, iterOk) ==
    IF chunker.finished THEN
        CallResult(chunker, "error", ErrAfterFinished("flush"), "-")
    ELSE IF chunker.inBuffer.obj THEN
        CallResult(chunker, "error", ErrBeforeConsuming("flush"), "-")
    ELSE IF ~iterOk THEN
        CallResult(chunker, "error", ErrNoMemory, "-")
    ELSE
        CallResult(chunker, "iter", NoErr, compressionchunker_mode_flush)

(* ---------------------------- caller loops --------------------------- *)
(* "for chunk in it": an iterator of the given mode pulled until a pull    *)
(* returns no chunk; out is the concatenation of the chunks it returned.   *)
RECURSIVE PullAll(_, _, _, _)

\* the loop after a pull that returned r
Pulled(r, mode, out) ==
    IF r.ret = "chunk" THEN PullAll(r.chunker, r.cctx, mode, out \o r.chunk)
    ELSE [chunker |-> r.chunker, cctx |-> r.cctx, out |-> out]

PullAll(chunker, cctx, mode, out) ==
    Pulled(ZstdCompressionChunkerIterator_iternext(chunker, cctx, mode, "ok"),
           mode, out)

\* finish() drained after the compress cursor was drained with result a
ThenFinish(a) ==
    PullAll(a.chunker, a.cctx, compressionchunker_mode_finish, a.out).out

\* a new chunker given the whole data in one compress() call, drained, then
\* finish() drained: everything it returns
OneShot(data) ==
    ThenFinish(PullAll(ZstdCompressionChunker_compress(NewChunker, data,
                                                       TRUE).chunker,
                       NewCCtx, compressionchunker_mode_normal, <<>>))

(* A second chunker handed out by the compressor of the first one: its     *)
(* compressor field is that same ZstdCompressor, whose one cctx every pull *)
(* dereferences (chunker->compressor->cctx).                               *)
Sibling == NewChunker

\* compress(data) on the sibling and one pull of the cursor it returns,
\* the compressor's session being session
SiblingPull(session, data) ==
    ZstdCompressionChunkerIterator_iternext(
        ZstdCompressionChunker_compress(Sibling, data, TRUE).chunker,
        session, compressionchunker_mode_normal, "ok")

(* ------------------- buffers with segments ---------------------------- *)
(* The buffer types are declared in hyperlight-zstandard.h; their          *)
(* operations are defined in bufferutil.c, which backend_c.c includes.     *)
(* The operations below follow the description of the buffer types.        *)

\* the largest value of the model's unsigned long long
MaxWord == 3
\* the longest segment table handed to BufferWithSegments_FromMemory
MaxSegments == 2

Word == 0..MaxWord
\* unsigned arithmetic wraps modulo Modulus
Modulus == MaxWord + 1

\* typedef struct { unsigned long long offset; unsigned long long length; }
BufferSegment == [offset : Word, length : Word]

ErrInvalidSegment == "InvalidSegment"
ErrIndexOutOfRange == "IndexOutOfRange"
ErrEmptyInput == "EmptyInput"

\* the segment tables a caller can pass
SegmentTables == UNION {[1..n -> BufferSegment] : n \in 0..MaxSegments}

\* the arguments of BufferWithSegments_FromMemory: data is a block of
\* dataSize bytes
\* the bytes of a block of n bytes, each position holding its own value
BlockData(n) == [p \in 1..n |-> p]

Memory(data, segments) ==
    [data |-> data, dataSize |-> Len(data), segments |-> segments]

Memories == {Memory(BlockData(n), t) : n \in Word, t \in SegmentTables}

NoMemory == Memory(<<>>, <<>>)
NoBuffer ==
    [data |-> <<>>, dataSize |-> 0, segments |-> <<>>, segmentCount |-> -1]

\* the segment's range lies within the block, decided without forming
\* offset + length
Mut_SegmentInBounds_Wraps(seg, dataSize) ==
    (seg.offset + seg.length) % Modulus <= dataSize

SegmentInBounds(seg, dataSize) ==
    /\ seg.offset <= dataSize
    /\ seg.length <= dataSize - seg.offset

BufferResult(ret, err, buffer) == [ret |-> ret, err |-> err, buffer |-> buffer]

\* construction from raw memory and a segment list
Mut_FromMemory_FirstSegmentOnly(data, dataSize, segments) ==
    IF segments # <<>> /\ ~SegmentInBounds(segments[1], dataSize)
    THEN BufferResult("error", ErrInvalidSegment, NoBuffer)
    ELSE BufferResult("ok", NoErr,
                      [data |-> data, dataSize |-> dataSize,
                       segments |-> segments,
                       segmentCount |-> Len(segments)])

BufferWithSegments_FromMemory(data, dataSize, segments) ==
    IF \E k \in 1..Len(segments) : ~SegmentInBounds(segments[k], dataSize)
    THEN BufferResult("error", ErrInvalidSegment, NoBuffer)
    ELSE BufferResult("ok", NoErr,
                      [data |-> data, dataSize |-> dataSize,
                       segments |-> segments,
                       segmentCount |-> Len(segments)])

\* what an operation of a buffer or a collection returned: for an item, the
\* block it was found in, its index there and the range of bytes it views
Item(op, ret, err, block, index, offset, length) ==
    [op |-> op, ret |-> ret, err |-> err, block |-> block, index |-> index,
     offset |-> offset, length |-> length, count |-> 0, bytes |-> <<>>]

NoItem == Item("init", "-", NoErr, 0, 0, 0, 0)

ItemError(op, err) == Item(op, "error", err, 0, 0, 0, 0)

\* the answer of a length() call
ItemCount(n) == [Item("length", "count", NoErr, 0, 0, 0, 0) EXCEPT !.count = n]

\* get(i) of a buffer with segments, i counted from 0
Mut_item_FromBlockStart(buffer, i) ==
    IF i >= buffer.segmentCount
    THEN ItemError("item", ErrIndexOutOfRange)
    ELSE Item("item", "segment", NoErr, 0, i,
              0, buffer.segments[i + 1].length)

BufferWithSegments_item(buffer, i) ==
    IF i >= buffer.segmentCount
    THEN ItemError("item", ErrIndexOutOfRange)
    ELSE Item("item", "segment", NoErr, 0, i,
              buffer.segments[i + 1].offset, buffer.segments[i + 1].length)

\* the bytes seen through a segment of the buffer: a ZstdBufferSegment
\* holds no bytes of its own, its data points offset bytes into the block
\* of its parent
SegmentBytes(buffer, it) ==
    SubSeq(buffer.data, it.offset + 1, it.offset + it.length)

\* the copy made of the bytes a segment views
Mut_Copied_WholeBlock(buffer, it) ==
    IF it.ret = "error" THEN [it EXCEPT !.op = "tobytes"]
    ELSE [it EXCEPT !.op = "tobytes", !.ret = "bytes",
                    !.bytes = buffer.data]

Copied(buffer, it) ==
    IF it.ret = "error" THEN [it EXCEPT !.op = "tobytes"]
    ELSE [it EXCEPT !.op = "tobytes", !.ret = "bytes",
                    !.bytes = SegmentBytes(buffer, it)]

\* to_bytes(i) of a buffer with segments: buffer[i].tobytes()
BufferSegment_tobytes(buffer, i) ==
    Copied(buffer, BufferWithSegments_item(buffer, i))

(* ------------------------- buffer collections -------------------------- *)
\* the most buffers given to a collection and the most segments in one
MaxBlocks == 3
MaxCount == 5

\* a buffer of count segments over a block of MaxWord bytes
Block(count) ==
    BufferWithSegments_FromMemory(
        BlockData(MaxWord), MaxWord,
        [k \in 1..count |-> [offset |-> (k - 1) % Modulus,
                             length |-> MaxWord - ((k - 1) % Modulus)]]).buffer

\* the argument lists a caller can pass to the collection's constructor
BlockLists ==
    UNION {[1..n -> {Block(c) : c \in 0..MaxCount}] : n \in 0..MaxBlocks}

NoCollection == [buffers |-> <<>>, bufferCount |-> 0, firstElements |-> <<>>]

\* the number of segments in the first n buffers
RECURSIVE SegmentsIn(_, _)
SegmentsIn(buffers, n) ==
    IF n = 0 THEN 0
    ELSE SegmentsIn(buffers, n - 1) + buffers[n].segmentCount

\* "0th entry corresponds to number of elements in the 0th buffer. 1st
\* entry corresponds to the sum of elements in 0th and 1st buffers."
Mut_FirstElements_Before(buffers) ==
    [b \in 1..Len(buffers) |-> SegmentsIn(buffers, b - 1)]

FirstElements(buffers) ==
    [b \in 1..Len(buffers) |-> SegmentsIn(buffers, b)]

CollectionResult(ret, err, c) == [ret |-> ret, err |-> err, collection |-> c]

\* Compose(blocks)
Mut_init_AcceptsNone(args) ==
    CollectionResult("ok", NoErr,
                     [buffers |-> args, bufferCount |-> Len(args),
                      firstElements |-> FirstElements(args)])

BufferWithSegmentsCollection_init(args) ==
    IF args = <<>>
    THEN CollectionResult("error", ErrEmptyInput, NoCollection)
    ELSE CollectionResult("ok", NoErr,
                          [buffers |-> args, bufferCount |-> Len(args),
                           firstElements |-> FirstElements(args)])

\* length(): the last entry of the prefix sums
BufferWithSegmentsCollection_length(c) == c.firstElements[c.bufferCount]

\* binary search of firstElements[lo..hi] for the first buffer b with
\* g < firstElements[b]
RECURSIVE OwningBuffer(_, _, _, _)
OwningBuffer(firstElements, g, lo, hi) ==
    IF lo >= hi THEN lo
    ELSE IF g < firstElements[(lo + hi) \div 2]
         THEN OwningBuffer(firstElements, g, lo, (lo + hi) \div 2)
         ELSE OwningBuffer(firstElements, g, (lo + hi) \div 2 + 1, hi)

\* the first global index of buffer b
FirstIndex(c, b) == IF b = 1 THEN 0 ELSE c.firstElements[b - 1]

\* the item of buffer b that global index g stands for
Located(c, g, b) ==
    [BufferWithSegments_item(c.buffers[b], g - FirstIndex(c, b))
        EXCEPT !.block = b - 1]

\* get(global_index), indices and blocks counted from 0
BufferWithSegmentsCollection_item(c, g) ==
    IF g >= BufferWithSegmentsCollection_length(c)
    THEN ItemError("item", ErrIndexOutOfRange)
    ELSE Located(c, g, OwningBuffer(c.firstElements, g, 1, c.bufferCount))

(* ------------------------ module initialisation ------------------------ *)
\* unsigned zstd_version_min = 10506;
zstd_version_min == 10506
\* how far from the minimum the versions of libzstd tried lie
MaxSkew == 1

Versions == (zstd_version_min - MaxSkew)..(zstd_version_min + MaxSkew)

\* a build of the extension: ZSTD_VERSION_NUMBER of the headers compiled
\* against, ZSTD_versionNumber() of the library linked, and whether
\* HAVE_ZSTD_POOL_APIS is defined
Builds == [compiled : Versions, linked : Versions, pool : BOOLEAN]

ErrVersionMismatch == "zstd C API versions mismatch"
ErrEmptySet == "could not create empty set"
ErrFeatureString == "could not create feature string"

Step(kind, name) == [kind |-> kind, name |-> name]

Feature(name) == <<Step("string", name), Step("add", name)>>

\* the *_module_init calls, in the order of zstd_module_exec
ModuleInits ==
    <<"bufferutil", "compressionparams", "compressiondict", "compressobj",
      "compressor", "compressionchunker", "compressionreader",
      "compressionwriter", "compressoriterator", "constants",
      "decompressor", "decompressobj", "decompressionreader",
      "decompressionwriter", "decompressoriterator", "frameparams">>

\* the calls of zstd_module_exec that can fail, after the version check
Steps(pool) ==
    <<Step("set", "features")>> \o Feature("buffer_types")
    \o (IF pool THEN Feature("multi_compress_to_buffer")
                     \o Feature("multi_decompress_to_buffer")
        ELSE <<>>)
    \o <<Step("setattr", "backend_features")>>
    \o [k \in 1..Len(ModuleInits) |-> Step("init", ModuleInits[k])]

Names(steps) == [k \in 1..Len(steps) |-> steps[k].name]

IsInit(step) == step.kind = "init"
IsAdd(step) == step.kind = "add"

\* what zstd_module_exec returned and what it left behind: the error set,
\* the features attached to the module and the module inits that ran
Loaded(ret, err, msg, features, inits, fault) ==
    [op |-> "exec", ret |-> ret, err |-> err, msg |-> msg,
     features |-> features, inits |-> inits, fault |-> fault]

NotLoaded ==
    [op |-> "init", ret |-> 0, err |-> NoErr, msg |-> NoErr,
     features |-> <<>>, inits |-> <<>>, fault |-> 0]

\* the error a failing step leaves set
ErrorOf(step) ==
    IF step.kind \in {"set", "string"} THEN "ImportError" ELSE ErrNoMemory

MessageOf(step) ==
    CASE step.kind = "set" -> ErrEmptySet
      [] step.kind = "string" -> ErrFeatureString
      [] OTHER -> NoErr

\* the step numbered fault has failed: the steps before it have run
FailedAt(steps, fault) ==
    Loaded(-1, ErrorOf(steps[fault]), MessageOf(steps[fault]),
           IF \E k \in 1..(fault - 1) : steps[k].kind = "setattr"
           THEN Names(SelectSeq(steps, IsAdd)) ELSE <<>>,
           Names(SelectSeq(SubSeq(steps, 1, fault - 1), IsInit)), fault)

\* ZSTD_VERSION_NUMBER < zstd_version_min || zstd_version_no < zstd_version_min
Mut_Mismatch_LinkedOnly(compiled, linked) == linked < zstd_version_min

Mismatch(compiled, linked) ==
    compiled < zstd_version_min \/ linked < zstd_version_min

\* fault: the number of the step that fails, 0 if none does
zstd_module_exec(b, fault) ==
    IF Mismatch(b.compiled, b.linked)
    THEN Loaded(-1, "ImportError", ErrVersionMismatch, <<>>, <<>>, 0)
    ELSE IF fault = 0
         THEN Loaded(0, NoErr, NoErr, Names(SelectSeq(Steps(b.pool), IsAdd)),
                     ModuleInits, fault)
         ELSE FailedAt(Steps(b.pool), fault)

\* the bundled libzstd, loaded
Bundled ==
    [compiled |-> zstd_version_min, linked |-> zstd_version_min, pool |-> TRUE]

(* --------------------------- state machine ---------------------------- *)
VARIABLES
    chunker,      \* the ZstdCompressionChunker
    cctx,         \* chunker->compressor->cctx
    iters,        \* the modes of the ZstdCompressionChunkerIterator objects
                  \* the caller holds (an iterator is its chunker and mode)
    last,         \* the latest call made by the caller and what it returned
    fed,          \* the bytes bound by the accepted compress() calls, in
                  \* order
    unpulled,     \* an input was bound and no iterator was pulled since
    codecIn,      \* every byte the codec has read, in order
    emitted,      \* every chunk returned so far, concatenated
    flushIssued,  \* the codec has been given ZSTD_e_flush
    errors,       \* codec and allocation failures so far
    stopped,      \* the modes of the iterators that have returned no chunk
    broken,       \* a pull has failed with "zstd compress error"
    pc,           \* per thread: Idle, or the pull that is inside a codec
                  \* call with the interpreter lock released
    raced,        \* two threads have used the chunker at the same time
    memory,       \* the block and segment table given to FromMemory
    buffer,       \* the ZstdBufferWithSegments made from them
    blocks,       \* the buffers given to the collection's constructor
    collection,   \* the ZstdBufferWithSegmentsCollection made from them
    item,         \* the latest buffer operation and what it returned
    build,        \* the libzstd the extension was built and linked with
    loader        \* what zstd_module_exec returned

\* what the caller remembers of the iterators it pulled
history == <<stopped, broken>>

\* the threads of the caller and where each one is
Threads == {1, 2}

\* a thread that is not inside a codec call
Idle == [mode |-> "-", directive |-> "none"]

threads == <<pc, raced>>

buffers == <<memory, buffer, blocks, collection, item>>

loading == <<build, loader>>

\* the module has been imported
ModuleLoaded ==
    /\ build = Bundled
    /\ loader = zstd_module_exec(Bundled, 0)

vars == <<chunker, cctx, iters, last, fed, unpulled, codecIn, emitted,
          flushIssued, errors, history, threads, buffers, loading>>

\* what a call found on entry: the input it met
Entry(c) == [obj |-> c.inBuffer.obj, size |-> c.input.size]

Last(op, mode, ret, err, chunk, zresult, dirs, pre) ==
    [op |-> op, mode |-> mode, ret |-> ret, err |-> err, chunk |-> chunk,
     zresult |-> zresult, dirs |-> dirs, pre |-> pre]

Init ==
    /\ chunker = NewChunker
    /\ cctx = NewCCtx
    /\ iters = {}
    /\ last = Last("init", "-", "-", NoErr, <<>>, 0, <<>>, Entry(NewChunker))
    /\ fed = <<>>
    /\ unpulled = FALSE
    /\ codecIn = <<>>
    /\ emitted = <<>>
    /\ flushIssued = FALSE
    /\ errors = 0
    /\ stopped = {}
    /\ broken = FALSE
    /\ pc = [t \in Threads |-> Idle]
    /\ raced = FALSE
    /\ memory = NoMemory
    /\ buffer = NoBuffer
    /\ blocks = <<>>
    /\ collection = NoCollection
    /\ item = NoItem
    /\ ModuleLoaded

\* PyObject_CallObject(ZstdCompressionChunkerIteratorTypeObj) and the
\* assignments to result->chunker and result->mode
NewIter(mode) == iters \cup {mode}

\* a call of compress / flush / finish, r its result
Called(op, r, data) ==
    /\ chunker' = r.chunker
    /\ iters' = IF r.ret = "iter" THEN NewIter(r.mode) ELSE iters
    /\ last' = Last(op, r.mode, r.ret, r.err, <<>>, 0, <<>>, Entry(chunker))
    /\ fed' = IF r.ret = "iter" THEN fed \o data ELSE fed
    /\ unpulled' = (unpulled \/ (op = "compress" /\ r.ret = "iter"))
    /\ UNCHANGED <<cctx, codecIn, emitted, flushIssued, errors, buffers,
                   loading>>

\* compress(data), data being the next n bytes of the source
CompressCall(n, iterOk) ==
    /\ Len(fed) + n <= MaxFed
    /\ LET data == SubSeq(Source, Len(fed) + 1, Len(fed) + n)
       IN  Called("compress",
                  ZstdCompressionChunker_compress(chunker, data, iterOk),
                  data)

FlushCall(iterOk) ==
    Called("flush", ZstdCompressionChunker_flush(chunker, iterOk), <<>>)

FinishCall(iterOk) ==
    Called("finish", ZstdCompressionChunker_finish(chunker, iterOk), <<>>)

\* the calls of a caller that uses the chunker from one thread
Compress(n, iterOk) ==
    CompressCall(n, iterOk) /\ UNCHANGED <<history, threads>>

Flush(iterOk) == FlushCall(iterOk) /\ UNCHANGED <<history, threads>>

Finish(iterOk) == FinishCall(iterOk) /\ UNCHANGED <<history, threads>>

\* what can go wrong in one pull: a codec call that fails before or after
\* moving the cursors, or a chunk that cannot be allocated
Faults == {"ok", "early", "late", "nomem"}

\* the pull failed in the codec or for lack of memory
Failed(r) == r.ret = "error" /\ r.err \in {ErrZstdCompress, ErrNoMemory}

\* what the caller sees of a pull that returned r
LastPull(mode, r) ==
    Last("next", mode, r.ret, r.err, r.chunk, r.zresult, r.dirs,
         Entry(chunker))

\* a pull of an iterator of the given mode, r its result
Returned(mode, r) ==
    /\ chunker' = r.chunker
    /\ cctx' = r.cctx
    /\ last' = LastPull(mode, r)
    /\ codecIn' = codecIn \o r.read
    /\ emitted' = emitted \o r.chunk
    /\ flushIssued' = (flushIssued \/ \E k \in 1..Len(r.dirs) :
                                          r.dirs[k] = ZSTD_e_flush)
    /\ errors' = IF Failed(r) THEN errors + 1 ELSE errors
    /\ unpulled' = FALSE
    /\ UNCHANGED <<iters, fed, buffers, loading>>

\* next(it) on an iterator of the given mode
Next_(mode, fault) ==
    /\ mode \in iters
    /\ fault # "ok" => errors < MaxErrors
    /\ Returned(mode, ZstdCompressionChunkerIterator_iternext(
                          chunker, cctx, mode, fault))
    /\ UNCHANGED <<history, threads>>

Next ==
    \/ \E n \in 0..MaxData, iterOk \in BOOLEAN : Compress(n, iterOk)
    \/ \E iterOk \in BOOLEAN : Flush(iterOk)
    \/ \E iterOk \in BOOLEAN : Finish(iterOk)
    \/ \E mode \in Modes, fault \in Faults : Next_(mode, fault)

Spec == Init /\ [][Next]_vars

(* The caller that drains a finish cursor goes on pulling it: weak        *)
(* fairness of the pull of a finish iterator whose codec call does not    *)
(* fail, WF_vars(Next_(compressionchunker_mode_finish, "ok")), written    *)
(* with its enabling condition and its step spelled out.                  *)
Changes(mode, r) ==
    \/ r.chunker # chunker
    \/ r.cctx # cctx
    \/ r.chunk # <<>>
    \/ unpulled
    \/ last # LastPull(mode, r)

FinishPullEnabled ==
    /\ compressionchunker_mode_finish \in iters
    /\ Changes(compressionchunker_mode_finish,
               ZstdCompressionChunkerIterator_iternext(
                   chunker, cctx, compressionchunker_mode_finish, "ok"))

FinishPullStep ==
    /\ last'.op = "next"
    /\ last'.mode = compressionchunker_mode_finish
    /\ errors' = errors

\* the calls of that caller get their iterator: a call that fails for lack
\* of memory leaves the chunker as it was and is a step of Spec
PullNext ==
    \/ \E n \in 0..MaxData : Compress(n, TRUE)
    \/ Flush(TRUE)
    \/ Finish(TRUE)
    \/ \E mode \in Modes, fault \in Faults : Next_(mode, fault)

PullSpec ==
    /\ Init
    /\ [][PullNext]_vars
    /\ <>[]FinishPullEnabled => []<><<FinishPullStep>>_vars

(* The same caller, remembering which of its iterators have returned no   *)
(* chunk and whether a pull has surfaced a codec error.  An iterator is    *)
(* its chunker and its mode (ZstdCompressionChunkerIterator has no other   *)
(* field), so the iterators of one mode behave alike and a pull of a mode  *)
(* is a pull of any iterator of that mode, the first one included.         *)
Remembered(mode, r) ==
    /\ Returned(mode, r)
    /\ stopped' = IF r.ret = "stop" THEN stopped \cup {mode} ELSE stopped
    /\ broken' = (broken \/ (r.ret = "error" /\ r.err = ErrZstdCompress))

HistoryNext_(mode, fault) ==
    /\ mode \in iters
    /\ fault # "ok" => errors < MaxErrors
    /\ Remembered(mode, ZstdCompressionChunkerIterator_iternext(
                            chunker, cctx, mode, fault))
    /\ UNCHANGED threads

HistoryNext ==
    \/ \E n \in 0..MaxData, iterOk \in BOOLEAN : Compress(n, iterOk)
    \/ \E iterOk \in BOOLEAN : Flush(iterOk)
    \/ \E iterOk \in BOOLEAN : Finish(iterOk)
    \/ \E mode \in Modes, fault \in Faults : HistoryNext_(mode, fault)

HistorySpec == Init /\ [][HistoryNext]_vars

(* The chunker used from several threads.  A pull holds the interpreter    *)
(* lock except inside ZSTD_compressStream2 (Py_BEGIN_ALLOW_THREADS ...     *)
(* Py_END_ALLOW_THREADS); while a thread is inside the first codec call of *)
(* its pull, another thread runs calls and pulls.  Two threads inside the  *)
(* codec on one cctx, or an input cursor rebound under a running codec     *)
(* call, is a data race: raced is set and the behaviour ends there.        *)
InCodec == {t \in Threads : pc[t] # Idle}

\* lines 31-43 and 79-106: the directive of the first codec call a pull of
\* the given mode makes, "none" when it returns without one
FirstDirective(c, mode) ==
    IF mode # compressionchunker_mode_normal /\ c.input.pos # c.input.size
    THEN "none"
    ELSE IF c.finished THEN "none"
    ELSE IF c.input.pos < c.input.size THEN ZSTD_e_continue
    ELSE IF mode = compressionchunker_mode_normal THEN "none"
    ELSE IF mode = compressionchunker_mode_flush THEN ZSTD_e_flush
    ELSE ZSTD_e_end

\* the pull as it waits in its codec call
InCall(mode, directive) == [mode |-> mode, directive |-> directive]

\* lines 79-85: what the pull did to the chunker before the codec call
BeforeCall(c, directive) ==
    IF directive = ZSTD_e_continue THEN c ELSE ReleaseIfConsumed(c)

\* the pull of thread t reaches its first codec call and releases the lock
EnterCodec(t, mode) ==
    /\ ~raced
    /\ pc[t] = Idle
    /\ mode \in iters
    /\ FirstDirective(chunker, mode) # "none"
    /\ pc' = [pc EXCEPT ![t] = InCall(mode, FirstDirective(chunker, mode))]
    /\ chunker' = BeforeCall(chunker, FirstDirective(chunker, mode))
    /\ raced' = (InCodec # {})
    /\ UNCHANGED <<cctx, iters, last, fed, unpulled, codecIn, emitted,
                   flushIssued, errors, history, buffers, loading>>

\* lines 44-135 from the first codec call on: the call and the rest of the
\* pull p
Resume(c, session, p, fault) ==
    IF p.directive = ZSTD_e_continue THEN
        Consumed(Continue(c, CodecCall(session, c.output, c.input,
                                       ZSTD_e_continue, fault),
                          fault, <<>>, <<>>),
                 p.mode, fault)
    ELSE
        Terminate(c, CodecCall(session, c.output, c.input, p.directive,
                               fault),
                  p.mode, p.directive, fault, <<>>, <<>>)

\* the codec call of thread t returns and its pull runs to its end
LeaveCodec(t, fault) ==
    /\ ~raced
    /\ pc[t] # Idle
    /\ fault # "ok" => errors < MaxErrors
    /\ Returned(pc[t].mode, Resume(chunker, cctx, pc[t], fault))
    /\ pc' = [pc EXCEPT ![t] = Idle]
    /\ UNCHANGED <<history, raced>>

\* a pull of thread t that returns without a codec call
ThreadPull(t, mode) ==
    /\ ~raced
    /\ pc[t] = Idle
    /\ mode \in iters
    /\ FirstDirective(chunker, mode) = "none"
    /\ Returned(mode, ZstdCompressionChunkerIterator_iternext(
                          chunker, cctx, mode, "ok"))
    /\ UNCHANGED <<history, threads>>

\* compress, flush and finish called by thread t
ThreadCompress(t, n, iterOk) ==
    /\ ~raced
    /\ pc[t] = Idle
    /\ CompressCall(n, iterOk)
    /\ raced' = (InCodec # {} /\ chunker'.input # chunker.input)
    /\ UNCHANGED <<history, pc>>

ThreadFlush(t, iterOk) ==
    /\ ~raced
    /\ pc[t] = Idle
    /\ FlushCall(iterOk)
    /\ UNCHANGED <<history, threads>>

ThreadFinish(t, iterOk) ==
    /\ ~raced
    /\ pc[t] = Idle
    /\ FinishCall(iterOk)
    /\ UNCHANGED <<history, threads>>

ThreadNext ==
    \/ \E t \in Threads, n \in 0..MaxData, iterOk \in BOOLEAN :
           ThreadCompress(t, n, iterOk)
    \/ \E t \in Threads, iterOk \in BOOLEAN : ThreadFlush(t, iterOk)
    \/ \E t \in Threads, iterOk \in BOOLEAN : ThreadFinish(t, iterOk)
    \/ \E t \in Threads, mode \in Modes : ThreadPull(t, mode)
    \/ \E t \in Threads, mode \in Modes : EnterCodec(t, mode)
    \/ \E t \in Threads, fault \in Faults : LeaveCodec(t, fault)

ThreadSpec == Init /\ [][ThreadNext]_vars

(* ---------------------- the buffer types in use ------------------------ *)
\* the chunker is left alone while the buffer types are exercised
ChunkerIdle ==
    /\ chunker = NewChunker
    /\ cctx = NewCCtx
    /\ iters = {}
    /\ last = Last("init", "-", "-", NoErr, <<>>, 0, <<>>, Entry(NewChunker))
    /\ fed = <<>>
    /\ unpulled = FALSE
    /\ codecIn = <<>>
    /\ emitted = <<>>
    /\ flushIssued = FALSE
    /\ errors = 0
    /\ stopped = {}
    /\ broken = FALSE
    /\ pc = [t \in Threads |-> Idle]
    /\ raced = FALSE

chunking == <<chunker, cctx, iters, last, fed, unpulled, codecIn, emitted,
              flushIssued, errors, history, threads>>

\* a caller holding a block of memory and a segment table
BufferInit ==
    /\ ChunkerIdle
    /\ ModuleLoaded
    /\ memory \in Memories
    /\ buffer = NoBuffer
    /\ blocks = <<>>
    /\ collection = NoCollection
    /\ item = NoItem

Constructed(r) ==
    /\ buffer' = r.buffer
    /\ item' = Item("FromMemory", r.ret, r.err, 0, 0, 0, 0)
    /\ UNCHANGED <<chunking, loading, memory, blocks, collection>>

\* BufferWithSegments_FromMemory(data, dataSize, segments, segmentsSize)
FromMemory ==
    /\ item = NoItem
    /\ Constructed(BufferWithSegments_FromMemory(memory.data, memory.dataSize,
                                                 memory.segments))

\* buffer[i]
BufferItem(i) ==
    /\ buffer # NoBuffer
    /\ item' = BufferWithSegments_item(buffer, i)
    /\ UNCHANGED <<chunking, loading, memory, buffer, blocks, collection>>

\* buffer[i].tobytes()
ToBytes(i) ==
    /\ buffer # NoBuffer
    /\ item' = BufferSegment_tobytes(buffer, i)
    /\ UNCHANGED <<chunking, loading, memory, buffer, blocks, collection>>

\* a copy as a block of its own, with the single segment {0, its length}
Rewrapped(copy) == Memory(copy, <<[offset |-> 0, length |-> Len(copy)]>>)

WrappedCopy(m) ==
    BufferWithSegments_FromMemory(m.data, m.dataSize, m.segments).buffer

\* the caller wraps the copy it was given as a new buffer with segments
Rewrap ==
    /\ item.ret = "bytes"
    /\ memory' = Rewrapped(item.bytes)
    /\ buffer' = WrappedCopy(Rewrapped(item.bytes))
    /\ item' = [item EXCEPT !.op = "rewrap", !.ret = "buffer"]
    /\ UNCHANGED <<chunking, loading, blocks, collection>>

BufferNext ==
    \/ FromMemory
    \/ \E i \in 0..MaxSegments : BufferItem(i)
    \/ \E i \in 0..MaxSegments : ToBytes(i)
    \/ Rewrap

BufferSpec == BufferInit /\ [][BufferNext]_vars

\* a caller holding a list of buffers
CollectionInit ==
    /\ ChunkerIdle
    /\ ModuleLoaded
    /\ memory = NoMemory
    /\ buffer = NoBuffer
    /\ blocks \in BlockLists
    /\ collection = NoCollection
    /\ item = NoItem

Composed(r) ==
    /\ collection' = r.collection
    /\ item' = Item("Compose", r.ret, r.err, 0, 0, 0, 0)
    /\ UNCHANGED <<chunking, loading, memory, buffer, blocks>>

\* BufferWithSegmentsCollection(*blocks)
Compose ==
    /\ item = NoItem
    /\ Composed(BufferWithSegmentsCollection_init(blocks))

\* len(collection)
Length ==
    /\ collection # NoCollection
    /\ item' = ItemCount(BufferWithSegmentsCollection_length(collection))
    /\ UNCHANGED <<chunking, loading, memory, buffer, blocks, collection>>

\* collection[g]
CollectionItem(g) ==
    /\ collection # NoCollection
    /\ item' = BufferWithSegmentsCollection_item(collection, g)
    /\ UNCHANGED <<chunking, loading, memory, buffer, blocks, collection>>

CollectionNext ==
    \/ Compose
    \/ Length
    \/ \E g \in 0..(MaxBlocks * MaxCount + 1) : CollectionItem(g)

CollectionSpec == CollectionInit /\ [][CollectionNext]_vars

(* ------------------ failing operations on live objects ----------------- *)
\* what the caller holds after an operation that answers new on success:
\* a failed operation answers NULL and the caller keeps what it had
Mut_Kept_Replaced(old, ret, new) == new

Kept(old, ret, new) == IF ret = "ok" THEN new ELSE old

\* a further BufferWithSegments_FromMemory over the first d bytes of the
\* block, with the same table; the caller drops the buffer it may answer
FromPrefix(d) ==
    /\ buffer # NoBuffer
    /\ d <= memory.dataSize
    /\ item' = Item("FromPrefix",
                    BufferWithSegments_FromMemory(Take(memory.data, d), d,
                                                  memory.segments).ret,
                    BufferWithSegments_FromMemory(Take(memory.data, d), d,
                                                  memory.segments).err,
                    0, 0, 0, 0)
    /\ buffer' = Kept(buffer, "error", NoBuffer)
    /\ UNCHANGED <<chunking, loading, memory, blocks, collection>>

\* the argument list holding the buffer n times
Copies(n) == [b \in 1..n |-> buffer]

ComposedOf(args, r) ==
    /\ item' = Item("Compose", r.ret, r.err, 0, 0, 0, 0)
    /\ collection' = Kept(collection, r.ret, r.collection)
    /\ blocks' = Kept(blocks, r.ret, args)
    /\ UNCHANGED <<chunking, loading, memory, buffer>>

\* BufferWithSegmentsCollection(buffer, ..., buffer), n arguments
ComposeOf(n) ==
    /\ buffer # NoBuffer
    /\ ComposedOf(Copies(n), BufferWithSegmentsCollection_init(Copies(n)))

FailureNext ==
    \/ FromMemory
    \/ \E d \in Word : FromPrefix(d)
    \/ \E i \in 0..MaxSegments : BufferItem(i)
    \/ \E n \in 0..MaxBlocks : ComposeOf(n)
    \/ Length
    \/ \E g \in 0..(MaxBlocks * MaxSegments) : CollectionItem(g)

\* the caller holds a block of MaxWord bytes and any segment table; the
\* shorter blocks are the prefixes FromPrefix takes of it
FailureInit == BufferInit /\ memory.dataSize = MaxWord

FailureSpec == FailureInit /\ [][FailureNext]_vars

(* -------------------------- importing the module ----------------------- *)
LoadInit ==
    /\ ChunkerIdle
    /\ memory = NoMemory
    /\ buffer = NoBuffer
    /\ blocks = <<>>
    /\ collection = NoCollection
    /\ item = NoItem
    /\ build \in Builds
    /\ loader = NotLoaded

\* import of the extension module: zstd_module_exec(m)
Load(fault) ==
    /\ loader = NotLoaded
    /\ fault <= Len(Steps(build.pool))
    /\ loader' = zstd_module_exec(build, fault)
    /\ UNCHANGED <<chunking, buffers, build>>

LoadNext == \E fault \in 0..Len(Steps(TRUE)) : Load(fault)

LoadSpec == LoadInit /\ [][LoadNext]_vars

(* ----------------- a chunker with a larger chunk size ------------------ *)
\* a chunk size that holds the first block of a frame with room to spare
LargeChunkSize == 5

\* the chunker ZstdCompressor.chunker(chunk_size=LargeChunkSize) hands out
LargeChunker ==
    [NewChunker EXCEPT !.output = [dst |-> [i \in 1..LargeChunkSize |-> 0],
                                   size |-> LargeChunkSize, pos |-> 0],
                       !.chunkSize = LargeChunkSize]

LargeInit ==
    /\ chunker = LargeChunker
    /\ cctx = NewCCtx
    /\ iters = {}
    /\ last = Last("init", "-", "-", NoErr, <<>>, 0, <<>>,
                   Entry(LargeChunker))
    /\ fed = <<>>
    /\ unpulled = FALSE
    /\ codecIn = <<>>
    /\ emitted = <<>>
    /\ flushIssued = FALSE
    /\ errors = 0
    /\ stopped = {}
    /\ broken = FALSE
    /\ pc = [t \in Threads |-> Idle]
    /\ raced = FALSE
    /\ memory = NoMemory
    /\ buffer = NoBuffer
    /\ blocks = <<>>
    /\ collection = NoCollection
    /\ item = NoItem
    /\ ModuleLoaded

LargeSpec == LargeInit /\ [][Next]_vars

(* ------------------------------- claims ------------------------------ *)
\* the step is a call of compress, flush or finish
IsCall(l) == l.op \in Ops

\* the step is a pull of an iterator of the given mode
IsPull(l, mode) == l.op = "next" /\ l.mode = mode

\* the call was refused with an error of the given kind
Refused(l, kind) == l.ret = "error" /\ ErrorKind(l.err) = kind

(* C1: once the chunker is finished it stays finished, and every compress, *)
(* flush or finish call made from then on fails with InvalidState ("cannot *)
(* call ... after compression finished") and changes nothing.              *)
C1_FinishedRejectsCalls ==
    [][chunker.finished =>
          /\ chunker'.finished
          /\ IsCall(last') =>
                 /\ Refused(last', "InvalidState")
                 /\ last'.err = ErrAfterFinished(last'.op)
                 /\ chunker' = chunker
                 /\ iters' = iters]_vars

\* a flush() refused on a finished chunker, after a finish pull set the flag
C1_Witness ==
    /\ chunker.finished
    /\ last.op = "flush"
    /\ Refused(last, "InvalidState")
    /\ Len(emitted) > 0

(* C2: chunk-boundary independence.  When the input was given in any       *)
(* number of compress calls and the chunker has been finished, with no     *)
(* flush directive, no failure and no compress call accepted after the end *)
(* directive (the output holds one frame), all chunks returned, joined,    *)
(* are byte for byte what one compress call of the whole input followed by *)
(* finish returns.                                                         *)
C2_Plain ==
    /\ chunker.finished
    /\ ~flushIssued
    /\ errors = 0
    /\ Count(emitted, FrameHeader) = 1

C2_ChunkBoundaryIndependence == C2_Plain => emitted = OneShot(fed)

\* the whole source was compressed in at least two compress calls
C2_Witness == C2_Plain /\ fed = Source /\ MaxData < Len(Source)

(* C3: finish terminates.  If from some point on the caller does nothing   *)
(* but pull a finish cursor, the input being drained, then after finitely  *)
(* many pulls a pull of that cursor returns no chunk.                      *)
C3_Draining ==
    /\ IsPull(last, compressionchunker_mode_finish)
    /\ chunker.input.pos = chunker.input.size

C3_Stopped ==
    IsPull(last, compressionchunker_mode_finish) /\ last.ret = "stop"

C3_FinishTerminates == <>[]C3_Draining => <>C3_Stopped

\* a finish cursor that returned several chunks, then nothing
C3_Witness ==
    /\ C3_Stopped
    /\ chunker.finished
    /\ errors = 0
    /\ Len(emitted) > ChunkSize

(* C4, as stated: a flush() or finish() call made while bound input is    *)
(* not fully consumed fails with the ProtocolViolation kind ("input should *)
(* have been fully consumed before calling flush() or finish()") and       *)
(* leaves the chunker unchanged.                                           *)
C4_Unconsumed == chunker.input.pos < chunker.input.size

C4_IsFlushOrFinish(l) == l.op \in {"flush", "finish"}

C4_CallFailsProtocolViolation ==
    [][(C4_Unconsumed /\ C4_IsFlushOrFinish(last')) =>
          /\ Refused(last', "ProtocolViolation")
          /\ chunker' = chunker]_vars

(* C4, amended: such a call is refused with the InvalidState message       *)
(* "cannot call flush()/finish() before consuming output from previous     *)
(* operation"; the ProtocolViolation message is what a pull of a flush or  *)
(* finish cursor raises while the input cursor is not at its end.  Either  *)
(* refusal leaves input cursor, output cursor, output buffer, finished     *)
(* flag and codec session unchanged, and no chunk is returned.             *)
C4_HeldInputRefusal ==
    [][C4_Unconsumed =>
          /\ C4_IsFlushOrFinish(last') =>
                 /\ Refused(last', "InvalidState")
                 /\ last'.err = ErrBeforeConsuming(last'.op)
                 /\ chunker' = chunker
                 /\ cctx' = cctx
                 /\ iters' = iters
          /\ (last'.op = "next" /\
              last'.mode # compressionchunker_mode_normal) =>
                 /\ Refused(last', "ProtocolViolation")
                 /\ chunker' = chunker
                 /\ cctx' = cctx
                 /\ emitted' = emitted]_vars

\* a finish() refused while the input is partly consumed, a full chunk
\* having been returned
C4_Witness ==
    /\ last.op = "finish"
    /\ Refused(last, "InvalidState")
    /\ 0 < chunker.input.pos
    /\ C4_Unconsumed
    /\ Len(emitted) = ChunkSize
    /\ errors = 0

(* C5: at most one input region is in flight.  In every reachable state   *)
(* in which the input bound by an accepted compress call has not been      *)
(* found exhausted by a pull (bytes of it are unread, or it was never      *)
(* pulled, which covers a zero-length input), every compress call is       *)
(* refused with InvalidState and leaves the bound region as it is.         *)
C5_InFlight == chunker.input.pos < chunker.input.size \/ unpulled

\* compress(data) is refused and changes nothing
C5_Rejected(r) ==
    /\ r.ret = "error"
    /\ ErrorKind(r.err) = "InvalidState"
    /\ r.chunker = chunker

C5_OneInputInFlight ==
    C5_InFlight =>
        \A n \in 0..MaxData, iterOk \in BOOLEAN :
            C5_Rejected(ZstdCompressionChunker_compress(
                            chunker, SubSeq(Source, 1, n), iterOk))

\* a compress call refused while a zero-length input waits for its pull
C5_Witness ==
    /\ last.op = "compress"
    /\ Refused(last, "InvalidState")
    /\ unpulled
    /\ chunker.inBuffer.obj
    /\ chunker.input.size = 0
    /\ errors = 0

(* C6: compress fails with InvalidState whenever a cursor returned earlier *)
(* still has output the caller has not consumed, in particular when the    *)
(* latest step was a pull of a flush or finish cursor that returned a      *)
(* chunk while the codec reported remaining work (no call having failed).  *)
C6_OutputPending ==
    /\ last.op = "next"
    /\ last.mode # compressionchunker_mode_normal
    /\ last.ret = "chunk"
    /\ last.zresult > 0
    /\ errors = 0

C6_CompressRefusedWhileOutputPending ==
    C6_OutputPending =>
        \A n \in 0..MaxData, iterOk \in BOOLEAN :
            C5_Rejected(ZstdCompressionChunker_compress(
                            chunker, SubSeq(Source, 1, n), iterOk))

\* every compress, flush and finish call on chunker c is refused
C7_AllRefused(c) ==
    /\ \A n \in 0..MaxData :
           ZstdCompressionChunker_compress(c, SubSeq(Source, 1, n),
                                           TRUE).ret = "error"
    /\ ZstdCompressionChunker_flush(c, TRUE).ret = "error"
    /\ ZstdCompressionChunker_finish(c, TRUE).ret = "error"

\* every compress, flush and finish call on chunker c is accepted
C8_AllAccepted(c) ==
    /\ \A n \in 0..MaxData :
           ZstdCompressionChunker_compress(c, SubSeq(Source, 1, n),
                                           TRUE).ret = "iter"
    /\ ZstdCompressionChunker_flush(c, TRUE).ret = "iter"
    /\ ZstdCompressionChunker_finish(c, TRUE).ret = "iter"

(* C7: whenever a pull of a finish cursor returns no chunk and no error,   *)
(* the chunker is finished, and compress, flush and finish are refused.    *)
C7_Drained ==
    IsPull(last, compressionchunker_mode_finish) /\ last.ret = "stop"

C7_FinishDrainMarksFinished ==
    C7_Drained => chunker.finished /\ C7_AllRefused(chunker)

\* the whole source compressed, the finish cursor pulled to its end
C7_Witness ==
    /\ C7_Drained
    /\ fed = Source
    /\ Len(emitted) > Len(Source)
    /\ errors = 0

(* C8: a pull of a normal cursor on an unfinished chunker that finds the   *)
(* input exhausted returns nothing and raises no error; what the output    *)
(* buffer held stays there and no chunk is returned; the chunker is not    *)
(* finished and holds no input, so compress, flush and finish are          *)
(* accepted next.                                                          *)
C8_NormalStop ==
    [][(~chunker.finished /\
        IsPull(last', compressionchunker_mode_normal) /\
        last'.ret = "stop") =>
          /\ last'.err = NoErr
          /\ emitted' = emitted
          /\ chunker'.output.pos >= chunker.output.pos
          /\ Take(chunker'.output.dst, chunker.output.pos) =
             Take(chunker.output.dst, chunker.output.pos)
          /\ ~chunker'.finished
          /\ C8_AllAccepted(chunker')]_vars

\* a normal pull that read input, returned nothing and left a partial
\* chunk in the output buffer
C8_Witness ==
    /\ IsPull(last, compressionchunker_mode_normal)
    /\ last.ret = "stop"
    /\ last.dirs # <<>>
    /\ chunker.output.pos > 0
    /\ errors = 0

(* C9: a chunk returned by the loop that drains input with the continue   *)
(* directive is exactly chunkSize bytes long; no chunk of any mode is      *)
(* longer than chunkSize; and the input position survives the return of a  *)
(* chunk: the bytes the codec has read so far, followed by the unread rest *)
(* of the bound input, are the bytes given to compress, each once and in   *)
(* order.                                                                  *)
C9_Unread ==
    SubSeq(chunker.input.src, chunker.input.pos + 1, chunker.input.size)

C9_FromLoop(l) ==
    /\ l.op = "next"
    /\ l.ret = "chunk"
    /\ l.dirs[Len(l.dirs)] = ZSTD_e_continue

C9_FullChunks ==
    /\ last.ret = "chunk" => Len(last.chunk) \in 1..chunker.chunkSize
    /\ C9_FromLoop(last) => Len(last.chunk) = chunker.chunkSize
    /\ codecIn \o C9_Unread = fed

\* a full chunk returned from the loop while input remains, the pull
\* having resumed inside the bound input
C9_Witness ==
    /\ C9_FromLoop(last)
    /\ 0 < chunker.input.pos
    /\ chunker.input.pos < chunker.input.size
    /\ Len(last.dirs) = 1
    /\ codecIn # <<>>
    /\ errors = 0

(* C10: compress with zero-length data is valid.  In every state in which  *)
(* the chunker is not finished and holds no input, compress(b"") returns   *)
(* a cursor, and the pull of that cursor returns no chunk and no error,    *)
(* gives the codec no directive, and leaves chunker and codec session      *)
(* exactly as they were before the call, so that compress, flush and       *)
(* finish are accepted as before.                                          *)
C10_PullIsNoOp(p) ==
    /\ p.ret = "stop"
    /\ p.err = NoErr
    /\ p.chunk = <<>>
    /\ p.dirs = <<>>
    /\ p.chunker = chunker
    /\ p.cctx = cctx
    /\ C8_AllAccepted(p.chunker)

C10_Accepted(r) ==
    /\ r.ret = "iter"
    /\ r.mode = compressionchunker_mode_normal
    /\ r.chunker.output = chunker.output
    /\ ~r.chunker.finished
    /\ C10_PullIsNoOp(ZstdCompressionChunkerIterator_iternext(
                          r.chunker, cctx, compressionchunker_mode_normal,
                          "ok"))

C10_EmptyCompressValid ==
    (~chunker.finished /\ ~chunker.inBuffer.obj) =>
        C10_Accepted(ZstdCompressionChunker_compress(chunker, <<>>, TRUE))

\* the pull of the cursor of an empty compress returned nothing, a partial
\* chunk of earlier input waiting in the output buffer
C10_Witness ==
    /\ IsPull(last, compressionchunker_mode_normal)
    /\ last.ret = "stop"
    /\ last.pre.obj
    /\ last.pre.size = 0
    /\ last.dirs = <<>>
    /\ chunker.output.pos > 0
    /\ ~chunker.inBuffer.obj
    /\ errors = 0

(* C11: a cursor is not restartable.  Once a pull of an iterator has       *)
(* returned no chunk, no later pull of that iterator returns a chunk,      *)
(* whatever compress, flush or finish calls were made in between (no call  *)
(* having failed).                                                         *)
C11_NotRestartable ==
    [][(errors' = 0 /\ last'.op = "next" /\ last'.mode \in stopped) =>
          last'.ret # "chunk"]_vars

(* C12: each chunker owns its codec session exclusively.  A codec step    *)
(* made through another chunker of the same compressor neither reads nor   *)
(* changes the codec state this chunker uses: when this chunker has bytes  *)
(* staged in the session, a compress and pull on the other chunker leave   *)
(* the session as it was.                                                  *)
C12_ExclusiveSession ==
    (errors = 0 /\ cctx.staged # <<>>) =>
        \A n \in 1..MaxData :
            SiblingPull(cctx, SubSeq(Source, 1, n)).cctx = cctx

(* C13: for one chunker used from several threads, at most one cursor is  *)
(* advancing.  While a pull is inside its codec call, no other pull enters *)
(* a codec call on the chunker, and no step of another thread rebinds the  *)
(* chunker's input cursor.                                                 *)
C13_OneCursorAdvancing ==
    [][InCodec # {} =>
          /\ \A t \in Threads : pc[t] = Idle => pc'[t] = Idle
          /\ pc' = pc => chunker'.input = chunker.input]_vars

(* C14: a chunker that has surfaced a codec error is permanently broken.   *)
(* After a pull has failed with "zstd compress error", no later call or    *)
(* pull gives the codec a directive or returns a chunk.                    *)
C14_BrokenAfterCodecError ==
    [][broken => (last'.dirs = <<>> /\ last'.ret # "chunk")]_vars

\* the segment counts of the buffers given to the collection
Counts == [b \in 1..Len(blocks) |-> blocks[b].segmentCount]

\* first_index[i]: the segments of blocks [0, i), i counted from 0
first_index(i) == SegmentsIn(blocks, i)

\* the largest block index i with first_index[i] <= g
Owner(g) ==
    CHOOSE i \in 0..(Len(blocks) - 1) :
        /\ first_index(i) <= g
        /\ \A j \in 0..(Len(blocks) - 1) : first_index(j) <= g => j <= i

\* get(g) answers with a segment of block i at local index g - first_index[i]
ResolvesTo(r, g, i) ==
    /\ r.ret = "segment"
    /\ r.block = i
    /\ r.index = g - first_index(i)
    /\ r.index < blocks[i + 1].segmentCount
    /\ r.offset = blocks[i + 1].segments[r.index + 1].offset
    /\ r.length = blocks[i + 1].segments[r.index + 1].length

\* "if there are 2 buffers holding 10 segments each, then o[14] will access
\* the 5th segment in the 2nd buffer"
TwoOfTen == BufferWithSegmentsCollection_init(<<Block(10), Block(10)>>).collection

(* C15: in a collection composed of blocks with segment counts c[0..n-1],  *)
(* every global index g < length() resolves to the block i that is the     *)
(* largest index with first_index[i] <= g and to local index               *)
(* g - first_index[i], which is smaller than block i's segment count, also *)
(* when some blocks hold no segment.                                       *)
C15_GlobalIndexResolution ==
    /\ collection # NoCollection =>
          \A g \in 0..(SegmentsIn(blocks, Len(blocks)) - 1) :
              ResolvesTo(BufferWithSegmentsCollection_item(collection, g),
                         g, Owner(g))
    /\ BufferWithSegmentsCollection_item(TwoOfTen, 14).block = 1
    /\ BufferWithSegmentsCollection_item(TwoOfTen, 14).index = 4

\* counts [3, 5, 2]: get(9) has answered block 2, local index 1
C15_Witness ==
    /\ Counts = <<3, 5, 2>>
    /\ collection # NoCollection
    /\ item = BufferWithSegmentsCollection_item(collection, 9)
    /\ item.block = 2
    /\ item.index = 1

(* C16: length() of a collection equals the sum of the segment counts of   *)
(* all its blocks, which is the last entry of the prefix sums, for any     *)
(* number of blocks from one up.                                           *)
C16_LengthIsTotal ==
    /\ collection # NoCollection =>
          /\ BufferWithSegmentsCollection_length(collection)
                 = SegmentsIn(blocks, Len(blocks))
          /\ collection.firstElements[Len(collection.firstElements)]
                 = SegmentsIn(blocks, Len(blocks))
    /\ item.op = "length" => item.count = SegmentsIn(blocks, Len(blocks))

C16_Witness ==
    /\ item.op = "length"
    /\ Len(blocks) = MaxBlocks
    /\ item.count = 10
    /\ \E b \in 1..Len(blocks) : blocks[b].segmentCount = 0

(* C17: get(global_index) of a collection fails with IndexOutOfRange if    *)
(* and only if global_index >= length(): every index below length()        *)
(* answers with a segment and no index from length() up does.              *)
C17_IndexOutOfRangeIffBeyond ==
    collection # NoCollection =>
        \A g \in 0..(MaxBlocks * MaxCount + 1) :
            /\ (BufferWithSegmentsCollection_item(collection, g).err
                    = ErrIndexOutOfRange)
                   <=> g >= SegmentsIn(blocks, Len(blocks))
            /\ (BufferWithSegmentsCollection_item(collection, g).ret
                    = "segment")
                   <=> g < SegmentsIn(blocks, Len(blocks))

\* counts [3, 5, 2]: get(10) has failed
C17_Witness ==
    /\ Counts = <<3, 5, 2>>
    /\ collection # NoCollection
    /\ item = BufferWithSegmentsCollection_item(collection, 10)
    /\ item.err = ErrIndexOutOfRange

(* C18: composing a collection from no block fails with EmptyInput and     *)
(* makes no collection; composing from one or more blocks succeeds and     *)
(* the collection holds each block in the order given.                     *)
C18_ComposeRetainsBlocks ==
    item.op # "init" =>
        IF blocks = <<>>
        THEN item.err = ErrEmptyInput /\ collection = NoCollection
        ELSE /\ collection # NoCollection
             /\ collection.bufferCount = Len(blocks)
             /\ collection.buffers = blocks
             /\ item.op = "Compose" => item.ret = "ok" /\ item.err = NoErr

C18_Witness ==
    /\ item.op = "Compose"
    /\ item.err = ErrEmptyInput
    /\ blocks = <<>>

\* some segment of the table reaches beyond the block
Outside(m) ==
    \E k \in 1..Len(m.segments) :
        m.segments[k].offset + m.segments[k].length > m.dataSize

\* byte p of the block lies in segment seg
Covers(seg, p) == seg.offset <= p /\ p < seg.offset + seg.length

(* C19: constructing a buffer with segments fails with InvalidSegment if   *)
(* and only if some segment has offset + length greater than the size of   *)
(* the block, so every constructed buffer has offset + length <= size for  *)
(* every segment; overlapping segments and gaps are accepted.              *)
C19_InvalidSegmentIffOutside ==
    /\ item.op = "FromMemory" =>
          /\ item.err = ErrInvalidSegment <=> Outside(memory)
          /\ item.ret = "ok" <=> ~Outside(memory)
    /\ item.op # "init" => (buffer # NoBuffer <=> ~Outside(memory))
    /\ buffer # NoBuffer =>
          /\ buffer.dataSize = memory.dataSize
          /\ buffer.segments = memory.segments
          /\ ~Outside(buffer)

\* a constructed buffer two segments of which overlap and a byte of which
\* no segment covers
C19_Witness ==
    /\ item.op = "FromMemory"
    /\ buffer # NoBuffer
    /\ buffer.segmentCount = 2
    /\ \E p \in 0..(buffer.dataSize - 1) :
           Covers(buffer.segments[1], p) /\ Covers(buffer.segments[2], p)
    /\ \E p \in 0..(buffer.dataSize - 1) :
           ~Covers(buffer.segments[1], p) /\ ~Covers(buffer.segments[2], p)

\* offset + length exceeds the largest value and, wrapped, fits the block
Wraps(seg, dataSize) ==
    /\ seg.offset + seg.length > MaxWord
    /\ (seg.offset + seg.length) % Modulus <= dataSize

BytesAt(m, seg) == [p \in 1..seg.length |-> m.data[seg.offset + p]]

\* the answer views exactly the range of the segment and holds no copy
ViewsSegment(b, it, m, seg) ==
    /\ it.ret = "segment"
    /\ it.err = NoErr
    /\ it.offset = seg.offset
    /\ it.length = seg.length
    /\ it.bytes = <<>>
    /\ SegmentBytes(b, it) = BytesAt(m, seg)

(* C21: get(i) of a buffer with segments answers, for every i below the    *)
(* segment count, with a view of exactly the bytes of the block at         *)
(* positions [segments[i].offset, segments[i].offset + segments[i].length) *)
(* (no copy), and fails with IndexOutOfRange for every i from the segment  *)
(* count up.                                                               *)
C21_ItemViewsSegment ==
    buffer # NoBuffer =>
        \A i \in 0..MaxSegments :
            IF i < Len(memory.segments)
            THEN ViewsSegment(buffer, BufferWithSegments_item(buffer, i),
                              memory, memory.segments[i + 1])
            ELSE /\ BufferWithSegments_item(buffer, i).ret = "error"
                 /\ BufferWithSegments_item(buffer, i).err = ErrIndexOutOfRange

\* get(1) has answered with a view of several bytes inside the block
C21_Witness ==
    /\ item.op = "item"
    /\ item.ret = "segment"
    /\ item.index = 1
    /\ item.offset > 0
    /\ item.length > 1
    /\ item = BufferWithSegments_item(buffer, 1)

\* to_bytes(i), the copy re-wrapped as a single-segment block, get(0) of it
RoundTrip(b, i) ==
    SegmentBytes(WrappedCopy(Rewrapped(BufferSegment_tobytes(b, i).bytes)),
                 BufferWithSegments_item(
                     WrappedCopy(Rewrapped(BufferSegment_tobytes(b, i).bytes)),
                     0))

(* C22: for every buffer with segments and every valid index i, the copy   *)
(* to_bytes(i), wrapped as a new block with the single segment {0, length  *)
(* of the copy}, has a get(0) whose content is byte-identical to that of   *)
(* the original get(i).                                                    *)
C22_RoundTrip ==
    /\ buffer # NoBuffer =>
          \A i \in 0..(buffer.segmentCount - 1) :
              /\ BufferSegment_tobytes(buffer, i).ret = "bytes"
              /\ WrappedCopy(Rewrapped(BufferSegment_tobytes(buffer, i).bytes))
                     # NoBuffer
              /\ RoundTrip(buffer, i)
                     = SegmentBytes(buffer, BufferWithSegments_item(buffer, i))
    /\ item.op = "rewrap" =>
          /\ buffer # NoBuffer
          /\ buffer.segmentCount = 1
          /\ SegmentBytes(buffer, BufferWithSegments_item(buffer, 0))
                 = item.bytes

\* a copy of several bytes taken past the start of its block has been
\* wrapped again
C22_Witness ==
    /\ item.op = "rewrap"
    /\ item.offset > 0
    /\ Len(item.bytes) > 1
    /\ buffer.data = item.bytes

BelowMinimum ==
    build.compiled < zstd_version_min \/ build.linked < zstd_version_min

(* C24: module initialisation fails with ImportError, before any type is   *)
(* created or registered, if and only if the compile-time or the run-time  *)
(* version of libzstd is below the minimum 10506; the two versions need    *)
(* not match.                                                              *)
C24_ImportErrorIffBelowMinimum ==
    loader.op = "exec" =>
        ((loader.ret = -1 /\ loader.err = "ImportError" /\ loader.inits = <<>>)
            <=> BelowMinimum)

(* C24, amended: module initialisation fails with the version mismatch     *)
(* ImportError if and only if the compile-time or the run-time version is  *)
(* below the minimum, and then no module init has run and no feature is    *)
(* attached; with both versions at or above the minimum, equal or not, it  *)
(* fails only when a later step fails, and succeeds when none does.        *)
C24_VersionCheck ==
    loader.op = "exec" =>
        /\ loader.msg = ErrVersionMismatch <=> BelowMinimum
        /\ loader.msg = ErrVersionMismatch =>
               /\ loader.ret = -1
               /\ loader.err = "ImportError"
               /\ loader.inits = <<>>
               /\ loader.features = <<>>
        /\ ~BelowMinimum => (loader.ret = -1 <=> loader.fault # 0)
        /\ loader.ret = 0 => loader.inits = ModuleInits

\* headers at the minimum, library below it: the import has failed
C24_Witness ==
    /\ loader.op = "exec"
    /\ loader.msg = ErrVersionMismatch
    /\ build.compiled = zstd_version_min
    /\ build.linked < zstd_version_min

\* the input cursor is not at its end
InputLeft(c) == c.input.pos # c.input.size

(* C25: a pull of a flush or finish cursor while the input cursor of the   *)
(* chunker is not exhausted fails with ProtocolViolation before anything   *)
(* else: the codec is not called and the input cursor, the output cursor   *)
(* and the finished flag are unchanged; once the input is drained a pull   *)
(* of that cursor is not refused that way.                                 *)
C25_ProtocolViolationFirst ==
    /\ [][(last'.op = "next" /\ last' # last
           /\ last'.mode # compressionchunker_mode_normal
           /\ InputLeft(chunker)) =>
              /\ Refused(last', "ProtocolViolation")
              /\ last'.err = ErrNotFullyConsumed
              /\ last'.dirs = <<>>
              /\ cctx' = cctx
              /\ codecIn' = codecIn
              /\ chunker' = chunker]_vars
    /\ [](\A mode \in iters, fault \in Faults :
              ~InputLeft(chunker) =>
                  ZstdCompressionChunkerIterator_iternext(
                      chunker, cctx, mode, fault).err # ErrNotFullyConsumed)

\* a flush cursor made before a compress() has been pulled with the input
\* of that compress() not yet read, and refused
C25_Witness ==
    /\ last.op = "next"
    /\ last.mode = compressionchunker_mode_flush
    /\ last.err = ErrNotFullyConsumed
    /\ InputLeft(chunker)
    /\ chunker.input.pos = 0
    /\ emitted # <<>>

\* the pull ended with a codec call given ZSTD_e_end that reported no work
\* left
EndedDrained(l) ==
    /\ IsPull(l, compressionchunker_mode_finish)
    /\ l.dirs # <<>>
    /\ l.dirs[Len(l.dirs)] = ZSTD_e_end
    /\ l.ret = "chunk"
    /\ l.zresult = 0

(* C26: the finished flag becomes true only in a pull of a finish cursor   *)
(* whose codec call with the end directive returned a zero hint: no pull   *)
(* of a normal or flush cursor, no compress, flush or finish call and no   *)
(* finish pull whose codec call returned a non-zero hint or an error sets  *)
(* it, and once true it never becomes false again.                         *)
C26_FinishedOnlyByDrainedEnd ==
    [][/\ (~chunker.finished /\ chunker'.finished) => EndedDrained(last')
       /\ chunker.finished => chunker'.finished]_vars

\* the flag has just been set by a finish pull that needed a single codec
\* call after earlier finish pulls had returned chunks
C26_Witness ==
    /\ chunker.finished
    /\ EndedDrained(last)
    /\ Len(last.dirs) = 1
    /\ Len(emitted) > ChunkSize
    /\ errors = 0

\* the latest step is a pull of a flush cursor that returned no chunk, no
\* call of the codec or of the allocator having failed so far
FlushDrained ==
    /\ IsPull(last, compressionchunker_mode_flush)
    /\ last.ret = "stop"
    /\ errors = 0

(* C27: after a flush cursor has been pulled until it yields no chunk, all *)
(* the codec had to emit for the flush has been emitted (the last flush    *)
(* step returned hint 0 and the output buffer is empty), the chunker is    *)
(* not finished and a following compress call is accepted.                 *)
C27_FlushDrainsAndStaysOpen ==
    FlushDrained =>
        /\ last.zresult = 0
        /\ chunker.output.pos = 0
        /\ ~chunker.finished
        /\ \A n \in 0..MaxData :
               ZstdCompressionChunker_compress(chunker, SubSeq(Source, 1, n),
                                               TRUE).ret = "iter"

\* l is what a flush or finish pull returned after a terminating call of
\* the codec, neither the call nor the allocation of the chunk having failed
Terminated(l) ==
    /\ l.op = "next"
    /\ l.mode # compressionchunker_mode_normal
    /\ l.dirs # <<>>
    /\ l.ret # "error"

\* the output cursor as the terminating call of a pull of the given mode
\* leaves it, the call being made in the present state
OutputAfter(mode) ==
    ZSTD_compressStream2(cctx, chunker.output, chunker.input,
                         IF mode = compressionchunker_mode_flush
                         THEN ZSTD_e_flush ELSE ZSTD_e_end).output

\* the number of bytes that call writes
Written(mode) == OutputAfter(mode).pos - chunker.output.pos

(* C28: in a flush or finish pull, when the terminating codec call returns *)
(* a zero hint and wrote no byte during that call, the pull yields no      *)
(* chunk, however many bytes the output buffer already held; in every      *)
(* other case the pull emits one chunk.                                    *)
C28_NoChunkIffNothingWritten ==
    [][Terminated(last') =>
          IF last'.zresult = 0 /\ Written(last'.mode) = 0
          THEN last'.ret = "stop"
          ELSE last'.ret = "chunk"]_vars

(* C28, as the code has it: the pull yields no chunk exactly when the      *)
(* terminating call returns a zero hint and leaves the output buffer       *)
(* empty; otherwise it emits one chunk holding every byte of the output    *)
(* buffer, those held before the call included, and resets the position.   *)
C28_NoChunkIffOutputEmpty ==
    [][Terminated(last') =>
          /\ last'.ret = "stop" <=>
                 (last'.zresult = 0 /\ OutputAfter(last'.mode).pos = 0)
          /\ last'.ret = "chunk" <=>
                 (last'.zresult # 0 \/ OutputAfter(last'.mode).pos # 0)
          /\ last'.ret = "chunk" =>
                 /\ last'.chunk = Take(OutputAfter(last'.mode).dst,
                                       OutputAfter(last'.mode).pos)
                 /\ chunker'.output.pos = 0]_vars

\* a flush pull has returned, as its chunk, the block a normal pull had left
\* in the output buffer, the flush call having had nothing to write
C28_Witness ==
    /\ Terminated(last)
    /\ last.mode = compressionchunker_mode_flush
    /\ last.ret = "chunk"
    /\ last.zresult = 0
    /\ last.chunk = <<FrameHeader, BlockSize>> \o Take(Source, BlockSize)
    /\ errors = 0

\* the terminating directive of a cursor of the given mode
DirectiveOf(mode) ==
    IF mode = compressionchunker_mode_flush THEN ZSTD_e_flush ELSE ZSTD_e_end

(* C29: the codec is given the flush or end directive only in a pull of a  *)
(* cursor of the matching mode, only once the input cursor is exhausted,   *)
(* and at most once per pull, as the last call of the pull; a call made    *)
(* while input remains uses the continue directive, and a continue call is *)
(* made only while input remains.                                          *)
C29_DirectiveDiscipline ==
    [][last'.op = "next" =>
          /\ \A k \in 1..Len(last'.dirs) :
                 last'.dirs[k] # ZSTD_e_continue =>
                     /\ k = Len(last'.dirs)
                     /\ last'.mode # compressionchunker_mode_normal
                     /\ last'.dirs[k] = DirectiveOf(last'.mode)
                     /\ chunker'.input.pos = chunker'.input.size
          /\ chunker.input.pos < chunker.input.size =>
                 \A k \in 1..Len(last'.dirs) :
                     last'.dirs[k] = ZSTD_e_continue
          /\ (last'.dirs # <<>> /\ last'.dirs[1] = ZSTD_e_continue) =>
                 chunker.input.pos < chunker.input.size]_vars

\* a finish pull has given the end directive to the codec after input was
\* compressed, no call having failed
C29_Witness ==
    /\ last.op = "next"
    /\ last.mode = compressionchunker_mode_finish
    /\ last.dirs = <<ZSTD_e_end>>
    /\ codecIn # <<>>
    /\ errors = 0

\* l is what a pull returned that failed in the codec
CodecErrored(l) == l.op = "next" /\ l.err = ErrZstdCompress

(* C30: when a codec call reports an error, in the loop or in the          *)
(* terminating call, the pull fails at once with the codec error: it       *)
(* returns no chunk, makes no further codec call, leaves the output        *)
(* position where the failed call left it (no reset) and does not set      *)
(* finished.                                                               *)
C30_CodecErrorFailsAtOnce ==
    [][CodecErrored(last') =>
          /\ last'.ret = "error"
          /\ last'.chunk = <<>>
          /\ emitted' = emitted
          /\ Len(last'.dirs) = 1
          /\ chunker'.output \in
                 {chunker.output,
                  ZSTD_compressStream2(cctx, chunker.output, chunker.input,
                                       last'.dirs[1]).output}
          /\ chunker'.output.pos >= chunker.output.pos
          /\ chunker'.finished = chunker.finished]_vars

\* a finish pull has failed in its terminating call, which had written into
\* the output buffer: the bytes stay there and the chunker is not finished
C30_Witness ==
    /\ CodecErrored(last)
    /\ last.dirs = <<ZSTD_e_end>>
    /\ chunker.output.pos > 0
    /\ ~chunker.finished

\* the bytes of the bound input the codec has not read
Unread(c) == SubSeq(c.input.src, c.input.pos + 1, c.input.size)

(* C31: the borrowed input is released exactly in the pull that finds the  *)
(* input cursor exhausted, also when the codec call of that pull reports   *)
(* an error, and the input position and length are then 0; it is never     *)
(* released while bytes remain unread.  Between operations the input is    *)
(* held if and only if an input was bound and no pull has yet found it     *)
(* exhausted.                                                              *)
C31_ReleasedWhenExhausted ==
    /\ [][/\ (chunker.inBuffer.obj /\ ~chunker'.inBuffer.obj) =>
                 /\ last'.op = "next"
                 /\ codecIn' = codecIn \o Unread(chunker)
                 /\ chunker'.input = NullInput
          /\ (last'.op = "next" /\ chunker'.inBuffer.obj) =>
                 chunker'.input.pos < chunker'.input.size]_vars
    /\ [](/\ chunker.inBuffer.obj <=>
                 (unpulled \/ chunker.input.pos < chunker.input.size)
          /\ ~chunker.inBuffer.obj => chunker.input = NullInput)

\* a pull that met a held input has failed in the codec after the codec
\* had read the input to its end: the input is released all the same
C31_Witness ==
    /\ CodecErrored(last)
    /\ last.pre.obj
    /\ last.pre.size > 0
    /\ ~chunker.inBuffer.obj
    /\ chunker.input = NullInput

(* C32: in every state the input cursor has position <= length and the     *)
(* output cursor has position <= the chunk size, and neither position      *)
(* ever decreases except by the reset to 0 made when a chunk is emitted    *)
(* (output) or when the input is released (input).                         *)
C32_CursorBounds ==
    /\ [](/\ chunker.input.pos <= chunker.input.size
          /\ chunker.input.size = Len(chunker.input.src)
          /\ chunker.output.pos <= chunker.output.size
          /\ chunker.output.size = chunker.chunkSize)
    /\ [][/\ chunker'.output.pos < chunker.output.pos =>
                 /\ last'.op = "next"
                 /\ last'.ret = "chunk"
                 /\ chunker'.output.pos = 0
          /\ chunker'.input.pos < chunker.input.pos =>
                 /\ last'.op = "next"
                 /\ chunker.inBuffer.obj
                 /\ ~chunker'.inBuffer.obj
                 /\ chunker'.input.pos = 0]_vars

\* a pull has emitted a chunk, which reset the output position, while part
\* of the input is read and part of it is not
C32_Witness ==
    /\ last.op = "next"
    /\ last.ret = "chunk"
    /\ chunker.output.pos = 0
    /\ chunker.input.pos > 0
    /\ chunker.input.pos < chunker.input.size

(* C33: once the chunker is finished, a pull of a cursor of any mode       *)
(* yields no chunk, raises no error, makes no codec call and changes       *)
(* neither the chunker nor the codec session.                              *)
C33_FinishedPullIsInert ==
    [][(chunker.finished /\ last'.op = "next") =>
          /\ last'.ret = "stop"
          /\ last'.err = NoErr
          /\ last'.dirs = <<>>
          /\ last'.chunk = <<>>
          /\ chunker' = chunker
          /\ cctx' = cctx
          /\ codecIn' = codecIn
          /\ emitted' = emitted
          /\ errors' = errors]_vars

\* a flush cursor has been pulled on a finished chunker: it made no codec
\* call and returned no chunk
C33_Witness ==
    /\ chunker.finished
    /\ IsPull(last, compressionchunker_mode_flush)
    /\ last.ret = "stop"
    /\ last.dirs = <<>>
    /\ fed # <<>>

\* the total segment count of blocks [0, i), counted segment by segment
Total(i) ==
    Cardinality(UNION {{b} \X (1..blocks[b].segmentCount) : b \in 1..i})

\* the entries of the stored array never decrease
NonDecreasing(f) == \A j, k \in 1..Len(f) : j <= k => f[j] <= f[k]

(* C34: the stored prefix-sum entry first_index[i] of a collection equals  *)
(* the total segment count of blocks [0, i), so that the entry for block 0 *)
(* is 0, and the entries are non-decreasing.                               *)
C34_StoredEntryCountsBlocksBefore ==
    collection # NoCollection =>
        /\ \A i \in 0..(collection.bufferCount - 1) :
               collection.firstElements[i + 1] = Total(i)
        /\ NonDecreasing(collection.firstElements)

(* C34, as the header documents the array: the stored entry i equals the   *)
(* total segment count of blocks [0, i], block i included, so that entry 0 *)
(* is the segment count of block 0 and the last entry is the length; the   *)
(* first index of block i, 0 for block 0 and the stored entry i - 1        *)
(* otherwise, is the total of blocks [0, i).  The entries are              *)
(* non-decreasing and are those of the block sequence the collection was   *)
(* composed from.                                                          *)
C34_StoredEntryCountsBlocksThrough ==
    collection # NoCollection =>
        /\ collection.buffers = blocks
        /\ collection.bufferCount = Len(blocks)
        /\ Len(collection.firstElements) = Len(blocks)
        /\ \A i \in 0..(collection.bufferCount - 1) :
               /\ collection.firstElements[i + 1] = Total(i + 1)
               /\ FirstIndex(collection, i + 1) = Total(i)
        /\ NonDecreasing(collection.firstElements)

\* a collection of several blocks, the first of which has segments and one
\* of which has none
C34_Witness ==
    /\ collection # NoCollection
    /\ collection.bufferCount = MaxBlocks
    /\ collection.firstElements[1] > 0
    /\ \E b \in 2..MaxBlocks :
           collection.firstElements[b] = collection.firstElements[b - 1]

\* the output cursor after the codec calls dirs[k], dirs[k + 1], ... made
\* one after the other from the given session and cursors
RECURSIVE Replay(_, _, _, _, _)

Replayed(r, dirs, k) == Replay(r.cctx, r.output, r.input, dirs, k)

Replay(session, output, input, dirs, k) ==
    IF k > Len(dirs) THEN output
    ELSE Replayed(ZSTD_compressStream2(session, output, input, dirs[k]),
                  dirs, k + 1)

\* the bytes an output cursor holds below its position
Held(output) == Take(output.dst, output.pos)

(* C35: output conservation.  In every step without a codec error, the     *)
(* chunks emitted so far followed by the bytes held in the output buffer   *)
(* are what they were before the step followed by the bytes the codec      *)
(* wrote during the step: no byte the codec wrote is emitted twice,        *)
(* reordered or dropped when a chunk is emitted and the position is reset. *)
C35_OutputConservation ==
    [][~CodecErrored(last') =>
          emitted' \o Held(chunker'.output) =
              emitted \o Held(Replay(cctx, chunker.output, chunker.input,
                                     last'.dirs, 1))]_vars

\* chunks have been emitted by cursors of several modes and bytes wait in
\* the output buffer, no call having failed
C35_Witness ==
    /\ Len(emitted) > ChunkSize
    /\ chunker.output.pos > 0
    /\ last.op = "next"
    /\ last.dirs # <<>>
    /\ flushIssued
    /\ errors = 0

\* the output buffer has no free byte
OutputFull(c) == c.output.pos = c.output.size

(* C36: whenever a pull returns without a codec error the output buffer is *)
(* not full: the output position is strictly below the chunk size between  *)
(* operations, so that every codec call is entered with a free output      *)
(* byte.                                                                   *)
C36_NotFullAfterPull ==
    (last.op = "next" /\ last.err # ErrZstdCompress) => ~OutputFull(chunker)

(* C36, with the failures accounted for: as long as no pull has failed,    *)
(* in the codec or for lack of memory, the output buffer is not full       *)
(* between operations.  The buffer becomes full only in a pull that fails  *)
(* in one of these two ways, and a pull that returns a chunk leaves it     *)
(* empty.                                                                  *)
C36_FullOnlyAfterFailure ==
    /\ [](errors = 0 => ~OutputFull(chunker))
    /\ [][/\ (OutputFull(chunker') /\ ~OutputFull(chunker)) =>
                 /\ last'.op = "next"
                 /\ last'.ret = "error"
                 /\ last'.err \in {ErrZstdCompress, ErrNoMemory}
          /\ (last'.op = "next" /\ last'.ret = "chunk") =>
                 chunker'.output.pos = 0]_vars

\* a pull has returned with bytes in the output buffer and a free byte
\* left, chunks having been emitted and no pull having failed
C36_Witness ==
    /\ last.op = "next"
    /\ last.dirs # <<>>
    /\ errors = 0
    /\ emitted # <<>>
    /\ chunker.output.pos > 0
    /\ chunker.output.pos = chunker.output.size - 1

C38_FinishedHoldsNoInput ==
    chunker.finished =>
        /\ ~chunker.inBuffer.obj
        /\ chunker.input = NullInput
        /\ ~unpulled
        /\ codecIn = fed

\* the chunker is finished after a compress call was accepted between two
\* pulls of a finish cursor: the last byte of the source, which no block
\* length equals, was emitted after the end of a first frame
C38_Witness ==
    /\ chunker.finished
    /\ errors = 0
    /\ fed = Source
    /\ BlockSize < MaxFed
    /\ \E p, q \in 1..Len(emitted) :
           /\ p < q
           /\ emitted[p] = FrameEpilogue
           /\ emitted[q] = Source[MaxFed]

(* C39: a compress, flush or finish call that fails, because the chunker   *)
(* is finished, because an input is held or because the iterator cannot be *)
(* created, leaves the input cursor, the held input, the output cursor and *)
(* the finished flag as they were; a compress call that fails after        *)
(* acquiring its data releases it, so that no input is left pending.       *)
C39_FailedCallChangesNothing ==
    [][(IsCall(last') /\ last'.ret = "error") =>
          /\ chunker'.input = chunker.input
          /\ chunker'.inBuffer = chunker.inBuffer
          /\ chunker'.output = chunker.output
          /\ chunker'.finished = chunker.finished
          /\ fed' = fed
          /\ iters' = iters
          /\ (last'.err = ErrNoMemory => ~chunker'.inBuffer.obj)]_vars

\* a compress call has failed for lack of memory on a chunker that has
\* emitted chunks and holds bytes in its output buffer: nothing is bound
C39_Witness ==
    /\ last.op = "compress"
    /\ last.ret = "error"
    /\ last.err = ErrNoMemory
    /\ ~chunker.inBuffer.obj
    /\ chunker.input = NullInput
    /\ chunker.output.pos > 0
    /\ emitted # <<>>

====
